---- MODULE Spec2Model ----
(***************************************************************************)
(* Model of the chunk store of memochat_plus (backend/app/memory_manager.py *)
(* class MemoryManager): the chunk table, the slot map over the append-only *)
(* FAISS index, retrieval, batch application of chunk operations and the    *)
(* persistence of the store.                                                *)
(*                                                                          *)
(* Modelling conventions                                                    *)
(*  - chunk ids ("chunk_" + 8 hex digits of a uuid4) are the integers       *)
(*    1, 2, ... in the order they are generated; generated ids are taken to *)
(*    be fresh (no uuid collision).  None, as a chunk id, is NoChunk = 0.   *)
(*  - datetime.now() is a logical clock `now` that ticks at every reading.  *)
(*  - the embedder is a fixed map from text to an integer vector, and the   *)
(*    IndexFlatL2 index is the sequence of the vectors added to it; slot    *)
(*    position p (0-based, as in FAISS) is element p+1 of the sequence.     *)
(*  - a search returns the n nearest slots closest first; the order among   *)
(*    slots at equal distance is not specified by the index and is a        *)
(*    nondeterministic choice.                                              *)
(*  - embedding and file writes succeed in the actions below, except in the *)
(*    actions whose name says that the embedder raises.                     *)
(*  - text produced by the generative service is a sequence of blocks, the  *)
(*    units the regular expressions of parse_chunk_operations match: tagged *)
(*    ADD / UPDATE / DELETE blocks, the "</think>" delimiter and other      *)
(*    text; the bodies of the blocks are strings.                           *)
(*  - a request handler runs to its end before the next one starts, except  *)
(*    in the specification of requests in flight together, where a response *)
(*    generator may be suspended at a yield while other requests run.       *)
(***************************************************************************)
EXTENDS FiniteSets, Integers, Sequences, TLC

\* ------------------------------------------------------------------ bounds
MaxSlots == 3        \* physical slots the index may grow to
MaxIds   == 2        \* chunk ids that may be generated
MaxK     == 2        \* largest top_k asked of retrieve_chunks
MaxOps   == 2        \* longest batch handed to apply_chunk_operations
MaxTime  == 3        \* readings of the clock
MaxTurns == 3        \* largest turn_count a chat request may start from
MaxCommits == 3      \* commits counted since the last deep archive
MaxDistill == 11     \* deep-archive distillations in SpecArchive

MaxBlocks   == 3    \* blocks of a generated text handed to the parser

\* ------------------------------------------------------------- input sets
Contents   == {"A", "B"}
Queries    == {"A", "C"}
Categories == {"general", "facts"}
None       == "None"
\* the (content, category) pairs handed to add_chunk, and the (new_content,
\* category) pairs handed to update_chunk; None is the omitted category
AddInputs    == {<<"A", "general">>, <<"B", "facts">>}
UpdateInputs == {<<"B", None>>, <<"A", "facts">>}
NoChunk    == 0                   \* None where a chunk id is expected
\* the memory section of the configuration the manager is built with
stm_size                 == 2     \* capacity of the turn buffer
config_summary_threshold == 2     \* summary_threshold before any request
archive_threshold        == 2     \* commits between two deep archives
\* prompts.chunk_consolidation: absent ("") or a template
ChunkPrompt == "chunks: {chunks_list} new: {new_summary}"
NoneChunk  == [none |-> TRUE]     \* None where a chunk record is expected
ChunkIds   == 1..MaxIds

\* SentenceTransformer.encode: text -> vector (two integer coordinates)
Embed == [c \in Contents \cup Queries |-> CASE c = "A" -> <<4, 0>>
                              [] c = "B" -> <<4, 1>>
                              [] c = "C" -> <<0, 3>>]

\* squared L2 distance, the metric of faiss.IndexFlatL2
L2 (u, v) == (u[1] - v[1]) * (u[1] - v[1]) + (u[2] - v[2]) * (u[2] - v[2])

VARIABLES
  ltm_chunks,        \* chunk_id -> [content, category, created_at, updated_at]
  chunk_index_map,   \* slot position -> chunk_id (live slots only)
  next_vector_id,    \* the store's next-slot counter
  ltm_index,         \* the FAISS index: sequence of vectors, append only
  ltm_metadata,      \* legacy aggregate view: list of 0 or 1 records
  disk,              \* the four files under memory_db_path
  now,               \* the clock read by datetime.now()
  issued,            \* number of chunk ids generated so far
  stm,               \* the turn buffer: deque(maxlen = stm_size)
  turn_count,        \* turns counted since the last commit
  consolidation_count,  \* the counter compared with archive_threshold
  archive_metadata,  \* the archive: list of [content, created_at]
  summary_threshold, \* the threshold of should_summarize
  chunk_consolidation_prompt,  \* prompts.chunk_consolidation of the config
  snapshots,         \* the exported files short_term_memory.md, long_term_memory.md
  last,              \* the last call: its name, arguments and return value
  deleted_ids,       \* history: the ids delete_chunk has removed so far
  commits,           \* history: commits since the last deep archive
  inflight           \* request -> where its response generator is suspended

vars == <<ltm_chunks, chunk_index_map, next_vector_id, ltm_index,
          ltm_metadata, disk, now, issued, stm, turn_count,
          consolidation_count, archive_metadata, summary_threshold,
          chunk_consolidation_prompt, snapshots, last, deleted_ids, commits,
          inflight>>

\* the MemoryManager instance (main.py: mm) with its environment
mm == [ltm_chunks |-> ltm_chunks, chunk_index_map |-> chunk_index_map,
       next_vector_id |-> next_vector_id, ltm_index |-> ltm_index,
       ltm_metadata |-> ltm_metadata, disk |-> disk, now |-> now,
       issued |-> issued, stm |-> stm, turn_count |-> turn_count,
       consolidation_count |-> consolidation_count,
       archive_metadata |-> archive_metadata,
       summary_threshold |-> summary_threshold,
       chunk_consolidation_prompt |-> chunk_consolidation_prompt,
       snapshots |-> snapshots]

\* the fields of the manager and its environment become those of s
SetFields (s) ==
  /\ ltm_chunks' = s.ltm_chunks
  /\ chunk_index_map' = s.chunk_index_map
  /\ next_vector_id' = s.next_vector_id
  /\ ltm_index' = s.ltm_index
  /\ ltm_metadata' = s.ltm_metadata
  /\ disk' = s.disk
  /\ now' = s.now
  /\ issued' = s.issued
  /\ stm' = s.stm
  /\ turn_count' = s.turn_count
  /\ consolidation_count' = s.consolidation_count
  /\ archive_metadata' = s.archive_metadata
  /\ summary_threshold' = s.summary_threshold
  /\ chunk_consolidation_prompt' = s.chunk_consolidation_prompt
  /\ snapshots' = s.snapshots

\* the requests that may be in flight together, and a request whose
\* response generator is not suspended
Requests == {1, 2}
Idle     == [pc |-> "idle"]

\* a handler that runs to its end without yielding: the manager becomes s
\* and no suspended generator moves
SetMM (s) ==
  /\ SetFields(s)
  /\ UNCHANGED inflight

\* ------------------------------------------------------- dict primitives
\* d[k] = v
DictSet (d, k, v) == [x \in DOMAIN d \cup {k} |-> IF x = k THEN v ELSE d[x]]

\* del d[k] for every k in ks
DictDel (d, ks) == [x \in DOMAIN d \ ks |-> d[x]]

\* d.get(k), None being NoChunk
DictGet (d, k) == IF k \in DOMAIN d THEN d[k] ELSE NoChunk

EmptyDict == <<>>

\* ltm_index.ntotal
ntotal (self) == Len(self.ltm_index)

\* embedder.encode([text]): any text has a vector; the texts Embed does not
\* list (summaries, rewritten knowledge bases) share one
encode (text) == IF text \in DOMAIN Embed THEN Embed[text] ELSE <<1, 1>>

\* ltm_index.add(embedder.encode([content]))
index_add (self, content) == Append(self.ltm_index, encode(content))

\* ------------------------------------------------------------ chunk CRUD
\* add_chunk dropping its category argument: every chunk is filed as general
add_chunk_default_category (self, content, category) ==
  LET chunk_id == self.issued + 1
      t        == self.now
      chunks1  == DictSet(self.ltm_chunks, chunk_id,
                          [content |-> content, category |-> "general",
                           created_at |-> t, updated_at |-> t])
      map1     == DictSet(self.chunk_index_map, self.next_vector_id, chunk_id)
  IN [self |-> [self EXCEPT !.ltm_chunks = chunks1,
                            !.ltm_index = index_add(self, content),
                            !.chunk_index_map = map1,
                            !.next_vector_id = @ + 1,
                            !.now = @ + 1,
                            !.issued = @ + 1],
      ret  |-> chunk_id]

\* add_chunk: returns the new manager state and the new chunk id
add_chunk (self, content, category) ==
  LET chunk_id == self.issued + 1
      t        == self.now
      chunks1  == DictSet(self.ltm_chunks, chunk_id,
                          [content |-> content, category |-> category,
                           created_at |-> t, updated_at |-> t])
      map1     == DictSet(self.chunk_index_map, self.next_vector_id, chunk_id)
  IN [self |-> [self EXCEPT !.ltm_chunks = chunks1,
                            !.ltm_index = index_add(self, content),
                            !.chunk_index_map = map1,
                            !.next_vector_id = @ + 1,
                            !.now = @ + 1,
                            !.issued = @ + 1],
      ret  |-> chunk_id]

\* add_chunk when embedder.encode (line 248) raises: the lines before it
\* have run, the lines after it have not
add_chunk_encode_error (self, content, category) ==
  LET chunk_id == self.issued + 1
      t        == self.now
  IN [self EXCEPT !.ltm_chunks =
                     DictSet(@, chunk_id,
                             [content |-> content, category |-> category,
                              created_at |-> t, updated_at |-> t]),
                  !.now = @ + 1,
                  !.issued = @ + 1]

\* old_vector_ids finding no slot to orphan: the chunk's old slots stay mapped
old_vector_ids_none (self, chunk_id) == {}

\* [vid for vid, cid in chunk_index_map.items() if cid == chunk_id]
old_vector_ids (self, chunk_id) ==
  {vid \in DOMAIN self.chunk_index_map : self.chunk_index_map[vid] = chunk_id}

\* update_chunk storing the default category when none is given
update_chunk_default_category (self, chunk_id, new_content, category) ==
  IF chunk_id \notin DOMAIN self.ltm_chunks
  THEN [self |-> self, ret |-> FALSE]
  ELSE
    LET old     == self.ltm_chunks[chunk_id]
        chunk1  == [old EXCEPT !.content = new_content,
                               !.updated_at = self.now,
                               !.category = IF category \in {None, ""}
                                            THEN "general" ELSE category]
        chunks1 == [self.ltm_chunks EXCEPT ![chunk_id] = chunk1]
        map1    == DictDel(self.chunk_index_map, old_vector_ids(self, chunk_id))
        map2    == DictSet(map1, self.next_vector_id, chunk_id)
    IN [self |-> [self EXCEPT !.ltm_chunks = chunks1,
                              !.ltm_index = index_add(self, new_content),
                              !.chunk_index_map = map2,
                              !.next_vector_id = @ + 1,
                              !.now = @ + 1],
        ret  |-> TRUE]

\* update_chunk without line 265: the new content is embedded, not stored
update_chunk_keep_content (self, chunk_id, new_content, category) ==
  IF chunk_id \notin DOMAIN self.ltm_chunks
  THEN [self |-> self, ret |-> FALSE]
  ELSE
    LET map1 == DictDel(self.chunk_index_map, old_vector_ids(self, chunk_id))
        map2 == DictSet(map1, self.next_vector_id, chunk_id)
    IN [self |-> [self EXCEPT !.ltm_chunks[chunk_id].updated_at = self.now,
                              !.ltm_index = index_add(self, new_content),
                              !.chunk_index_map = map2,
                              !.next_vector_id = @ + 1,
                              !.now = @ + 1],
        ret  |-> TRUE]

\* update_chunk rewriting in place: no new vector, the old slot stays mapped
update_chunk_in_place (self, chunk_id, new_content, category) ==
  IF chunk_id \notin DOMAIN self.ltm_chunks
  THEN [self |-> self, ret |-> FALSE]
  ELSE [self |-> [self EXCEPT
                    !.ltm_chunks[chunk_id].content = new_content,
                    !.ltm_chunks[chunk_id].updated_at = self.now,
                    !.now = @ + 1],
        ret  |-> TRUE]

\* update_chunk without the test of line 260: an unknown id is inserted
update_chunk_upsert (self, chunk_id, new_content, category) ==
  LET chunks1 == DictSet(self.ltm_chunks, chunk_id,
                         [content |-> new_content, category |-> "general",
                          created_at |-> self.now, updated_at |-> self.now])
      map1    == DictDel(self.chunk_index_map, old_vector_ids(self, chunk_id))
      map2    == DictSet(map1, self.next_vector_id, chunk_id)
  IN [self |-> [self EXCEPT !.ltm_chunks = chunks1,
                            !.ltm_index = index_add(self, new_content),
                            !.chunk_index_map = map2,
                            !.next_vector_id = @ + 1,
                            !.now = @ + 1],
      ret  |-> TRUE]

\* update_chunk: category None (or empty) keeps the chunk's category
update_chunk (self, chunk_id, new_content, category) ==
  IF chunk_id \notin DOMAIN self.ltm_chunks
  THEN [self |-> self, ret |-> FALSE]
  ELSE
    LET old     == self.ltm_chunks[chunk_id]
        chunk1  == [old EXCEPT !.content = new_content,
                               !.updated_at = self.now,
                               !.category = IF category \in {None, ""}
                                            THEN @ ELSE category]
        chunks1 == [self.ltm_chunks EXCEPT ![chunk_id] = chunk1]
        map1    == DictDel(self.chunk_index_map, old_vector_ids(self, chunk_id))
        map2    == DictSet(map1, self.next_vector_id, chunk_id)
    IN [self |-> [self EXCEPT !.ltm_chunks = chunks1,
                              !.ltm_index = index_add(self, new_content),
                              !.chunk_index_map = map2,
                              !.next_vector_id = @ + 1,
                              !.now = @ + 1],
        ret  |-> TRUE]

\* update_chunk when embedder.encode (line 277) raises: an unknown id has
\* returned False before (no error); for a known id lines 265-274 have run
update_chunk_encode_error (self, chunk_id, new_content, category) ==
  IF chunk_id \notin DOMAIN self.ltm_chunks
  THEN [self |-> self, raised |-> FALSE]
  ELSE
    LET old    == self.ltm_chunks[chunk_id]
        chunk1 == [old EXCEPT !.content = new_content,
                              !.updated_at = self.now,
                              !.category = IF category \in {None, ""}
                                           THEN @ ELSE category]
    IN [self |-> [self EXCEPT
                    !.ltm_chunks = [@ EXCEPT ![chunk_id] = chunk1],
                    !.chunk_index_map =
                       DictDel(@, old_vector_ids(self, chunk_id)),
                    !.now = @ + 1],
        raised |-> TRUE]

\* delete_chunk that orphans the slots but forgets the chunk table
delete_chunk_keep_record (self, chunk_id) ==
  IF chunk_id \notin DOMAIN self.ltm_chunks
  THEN [self |-> self, ret |-> FALSE]
  ELSE [self |-> [self EXCEPT
                    !.chunk_index_map =
                       DictDel(@, old_vector_ids(self, chunk_id))],
        ret  |-> TRUE]

\* delete_chunk that also compacts the index, dropping its last vector
delete_chunk_compact (self, chunk_id) ==
  IF chunk_id \notin DOMAIN self.ltm_chunks
  THEN [self |-> self, ret |-> FALSE]
  ELSE [self |-> [self EXCEPT
                    !.ltm_chunks = DictDel(@, {chunk_id}),
                    !.chunk_index_map =
                       DictDel(@, old_vector_ids(self, chunk_id)),
                    !.ltm_index = SubSeq(@, 1, Len(@) - 1)],
        ret  |-> TRUE]

\* delete_chunk: the vector stays in the index, only the mapping goes
delete_chunk (self, chunk_id) ==
  IF chunk_id \notin DOMAIN self.ltm_chunks
  THEN [self |-> self, ret |-> FALSE]
  ELSE [self |-> [self EXCEPT
                    !.ltm_chunks = DictDel(@, {chunk_id}),
                    !.chunk_index_map =
                       DictDel(@, old_vector_ids(self, chunk_id))],
        ret  |-> TRUE]

\* get_chunk: ltm_chunks.get(chunk_id)
get_chunk (self, chunk_id) ==
  IF chunk_id \in DOMAIN self.ltm_chunks THEN self.ltm_chunks[chunk_id]
  ELSE NoneChunk

\* -------------------------------------------------------------- retrieval
\* ltm_index.search(vec, n): every sequence of n distinct slot positions,
\* nearest first, that the index may return (ties in any order)
RECURSIVE Nearest (_, _, _, _)
Nearest (index, vec, S, n) ==
  IF n = 0 \/ S = {} THEN {<<>>}
  ELSE LET mins == {p \in S : \A r \in S :
                       L2(index[p + 1], vec) <= L2(index[r + 1], vec)}
       IN UNION {{<<p>> \o t : t \in Nearest(index, vec, S \ {p}, n - 1)}
                 : p \in mins}

index_search (self, query, n) ==
  Nearest(self.ltm_index, Embed[query], 0..(ntotal(self) - 1), n)

Min (a, b) == IF a <= b THEN a ELSE b

\* the breadth without the over-fetch: min(top_k, ntotal)
search_breadth_exact (self, top_k) == Min(top_k, ntotal(self))

\* the breadth asked of the index: min(top_k * 2, ntotal)
search_breadth (self, top_k) == Min(top_k * 2, ntotal(self))

\* {"chunk_id": chunk_id, **ltm_chunks[chunk_id]}
result_entry (self, idx, chunk_id) ==
  [chunk_id   |-> chunk_id,
   content    |-> self.ltm_chunks[chunk_id].content,
   category   |-> self.ltm_chunks[chunk_id].category,
   created_at |-> self.ltm_chunks[chunk_id].created_at,
   updated_at |-> self.ltm_chunks[chunk_id].updated_at]

\* the test of the walk: a mapped slot, a chunk not yet emitted, a known chunk
accepted (self, seen_chunks, chunk_id) ==
  /\ chunk_id # NoChunk
  /\ chunk_id \notin seen_chunks
  /\ chunk_id \in DOMAIN self.ltm_chunks

\* the loop of retrieve_chunks over indices[0], from position i on
RECURSIVE walk (_, _, _, _, _, _)
walk (self, indices, i, top_k, results, seen_chunks) ==
  IF i > Len(indices) THEN results
  ELSE
    LET idx      == indices[i]
        chunk_id == DictGet(self.chunk_index_map, idx)
    IN IF idx < 0
       THEN walk(self, indices, i + 1, top_k, results, seen_chunks)
       ELSE IF accepted(self, seen_chunks, chunk_id)
       THEN LET results1 == Append(results, result_entry(self, idx, chunk_id))
            IN IF Len(results1) >= top_k
               THEN results1
               ELSE walk(self, indices, i + 1, top_k, results1,
                         seen_chunks \cup {chunk_id})
       ELSE walk(self, indices, i + 1, top_k, results, seen_chunks)

\* retrieve_chunks without the filter of the walk: one entry for each of the
\* first top_k slots, mapped or not
retrieve_chunks_unfiltered (self, indices, top_k) ==
  [i \in 1..Min(top_k, Len(indices)) |->
     LET chunk_id == DictGet(self.chunk_index_map, indices[i])
     IN IF chunk_id \in DOMAIN self.ltm_chunks
        THEN result_entry(self, indices[i], chunk_id)
        ELSE [chunk_id |-> chunk_id, content |-> "", category |-> "",
              created_at |-> 0, updated_at |-> 0]]

\* retrieve_chunks, given the slot sequence the index returned
retrieve_chunks (self, indices, top_k) ==
  walk(self, indices, 1, top_k, <<>>, {})

\* ------------------------------------------------------- conflict scan
\* _compute_similarity: the cosine of the two embeddings, kept as the dot
\* product and the two squared norms
_compute_similarity (text1, text2) ==
  LET emb1 == encode(text1)
      emb2 == encode(text2)
  IN [dot      |-> emb1[1] * emb2[1] + emb1[2] * emb2[2],
      norm1_sq |-> emb1[1] * emb1[1] + emb1[2] * emb1[2],
      norm2_sq |-> emb2[1] * emb2[1] + emb2[2] * emb2[2]]

\* the test of the threshold passing every pair of embeddings that are not
\* orthogonal or opposed
above_threshold_lenient (similarity, similarity_threshold) ==
  similarity.dot > 0

\* similarity > similarity_threshold, the threshold given in hundredths
\* (a similarity with a zero norm is 0.0)
above_threshold (similarity, similarity_threshold) ==
  /\ similarity.norm1_sq # 0
  /\ similarity.norm2_sq # 0
  /\ similarity.dot > 0
  /\ similarity.dot * similarity.dot * 10000
       > similarity_threshold * similarity_threshold
           * similarity.norm1_sq * similarity.norm2_sq

\* the key of a pair that keeps the order in which the two ids were met
pair_key_in_order (id1, id2) == <<id1, id2>>

\* tuple(sorted([chunk_id, sim_chunk["chunk_id"]]))
pair_key (id1, id2) == IF id1 <= id2 THEN <<id1, id2>> ELSE <<id2, id1>>

\* one entry of the scan (its rounded similarity is left out)
conflict_entry (self, chunk_id, sim_chunk) ==
  [chunk1 |-> [chunk_id |-> chunk_id,
               content  |-> self.ltm_chunks[chunk_id].content,
               category |-> self.ltm_chunks[chunk_id].category],
   chunk2 |-> [chunk_id |-> sim_chunk.chunk_id,
               content  |-> sim_chunk.content,
               category |-> sim_chunk.category]]

\* the inner loop of the scan over similar_chunks, from position i on;
\* found is the pair [conflicts, processed_pairs]
RECURSIVE scan_similar (_, _, _, _, _, _)
scan_similar (self, chunk_id, similar_chunks, i, found, similarity_threshold) ==
  IF i > Len(similar_chunks) THEN found
  ELSE IF similar_chunks[i].chunk_id = chunk_id
  THEN scan_similar(self, chunk_id, similar_chunks, i + 1, found,
                    similarity_threshold)
  ELSE IF pair_key(chunk_id, similar_chunks[i].chunk_id) \in found.processed_pairs
  THEN scan_similar(self, chunk_id, similar_chunks, i + 1, found,
                    similarity_threshold)
  ELSE IF above_threshold(
            _compute_similarity(self.ltm_chunks[chunk_id].content,
                                similar_chunks[i].content),
            similarity_threshold)
  THEN scan_similar(self, chunk_id, similar_chunks, i + 1,
         [conflicts |-> Append(found.conflicts,
                               conflict_entry(self, chunk_id, similar_chunks[i])),
          processed_pairs |-> found.processed_pairs
              \cup {pair_key(chunk_id, similar_chunks[i].chunk_id)}],
         similarity_threshold)
  ELSE scan_similar(self, chunk_id, similar_chunks, i + 1, found,
                    similarity_threshold)

\* the number of similar chunks the scan asks for (line 433)
scan_top_k == 6

\* the outer loop of the scan over the chunks ids still to visit, in dict
\* order: every list of conflicts it may end with, the index being free to
\* order equidistant slots either way in each search
RECURSIVE scan_chunks (_, _, _, _)
scan_chunks (self, ids, found, similarity_threshold) ==
  IF ids = {} THEN {found.conflicts}
  ELSE
    LET chunk_id == CHOOSE x \in ids : \A y \in ids : x <= y
    IN UNION {scan_chunks(self, ids \ {chunk_id},
                          scan_similar(self, chunk_id,
                                       retrieve_chunks(self, indices, scan_top_k),
                                       1, found, similarity_threshold),
                          similarity_threshold)
              : indices \in Nearest(self.ltm_index,
                                    encode(self.ltm_chunks[chunk_id].content),
                                    0..(ntotal(self) - 1),
                                    search_breadth(self, scan_top_k))}

\* scan_all_chunks_for_conflicts under the settings in force: the lists of
\* conflicts it may return
scan_all_chunks_for_conflicts (self, enable_similarity_check, similarity_threshold) ==
  IF ~enable_similarity_check THEN {<<>>}
  ELSE scan_chunks(self, DOMAIN self.ltm_chunks,
                   [conflicts |-> <<>>, processed_pairs |-> {}],
                   similarity_threshold)

\* ------------------------------------------------------ aggregate view
Upper == [c \in Categories |-> CASE c = "general" -> "GENERAL"
                                 [] c = "facts" -> "FACTS"]

\* "\n\n".join(parts): the chunks in dict order, which is the order of
\* creation, hence of increasing id
RECURSIVE JoinFrom (_, _, _)
JoinFrom (chunks, ids, sep) ==
  IF ids = {} THEN ""
  ELSE LET id   == CHOOSE x \in ids : \A y \in ids : x <= y
           part == "[" \o Upper[chunks[id].category] \o "]\n"
                       \o chunks[id].content
           rest == ids \ {id}
       IN IF rest = {} THEN part
          ELSE part \o sep \o JoinFrom(chunks, rest, sep)

\* rebuild_legacy_metadata (the record's two time stamps are left out)
rebuild_legacy_metadata (self) ==
  IF DOMAIN self.ltm_chunks = {} THEN self
  ELSE [self EXCEPT !.ltm_metadata =
          <<[content |-> JoinFrom(self.ltm_chunks, DOMAIN self.ltm_chunks,
                                  "\n\n"),
             chunk_count |-> Cardinality(DOMAIN self.ltm_chunks)]>>]

\* ---------------------------------------------------------- persistence
Digit == <<"0", "1", "2", "3", "4", "5", "6", "7", "8", "9">>

\* str(n) as json.dump writes an integer dict key: its decimal digits
RECURSIVE IntToStr (_)
IntToStr (n) ==
  IF n < 10 THEN <<Digit[n + 1]>>
  ELSE IntToStr(n \div 10) \o <<Digit[(n % 10) + 1]>>

DigitVal (c) == (CHOOSE i \in 1..10 : Digit[i] = c) - 1

\* int(k) on a string of decimal digits
RECURSIVE StrToInt (_)
StrToInt (str) ==
  IF Len(str) = 1 THEN DigitVal(str[1])
  ELSE StrToInt(SubSeq(str, 1, Len(str) - 1)) * 10 + DigitVal(str[Len(str)])

\* json.dump(chunk_index_map): the integer keys become strings
json_dump_map (map) ==
  LET keys == {IntToStr(p) : p \in DOMAIN map}
  IN [k \in keys |-> map[CHOOSE p \in DOMAIN map : IntToStr(p) = k]]

\* {int(k): v for k, v in data.items()}
load_chunk_map (data) ==
  LET keys == {StrToInt(k) : k \in DOMAIN data}
  IN [p \in keys |-> data[CHOOSE k \in DOMAIN data : StrToInt(k) = p]]

\* max(chunk_index_map.keys(), default=-1) + 1
next_after (map) ==
  IF DOMAIN map = {} THEN 0
  ELSE (CHOOSE p \in DOMAIN map : \A r \in DOMAIN map : r <= p) + 1

\* faiss.write_index: dimension, vector count and the coordinates in a row
RECURSIVE Flatten (_)
Flatten (index) ==
  IF index = <<>> THEN <<>> ELSE Head(index) \o Flatten(Tail(index))

write_index (index) == [d |-> 2, ntotal |-> Len(index), xb |-> Flatten(index)]

\* faiss.read_index: cuts the row of coordinates into ntotal vectors
read_index (blob) ==
  [p \in 1..blob.ntotal |->
     SubSeq(blob.xb, (p - 1) * blob.d + 1, p * blob.d)]

\* a file of memory_db_path: absent, or present with its content
NoFile == [exists |-> FALSE]
File (data) == [exists |-> TRUE, data |-> data]

\* _save_ltm that leaves chunk_map.json as it was
_save_ltm_without_map (self) ==
  [self EXCEPT !.disk =
     [faiss_index |-> File(write_index(self.ltm_index)),
      metadata    |-> File(self.ltm_metadata),
      chunks      |-> File(self.ltm_chunks),
      chunk_map   |-> self.disk.chunk_map]]

\* _save_ltm: writes the four files
_save_ltm (self) ==
  [self EXCEPT !.disk =
     [faiss_index |-> File(write_index(self.ltm_index)),
      metadata    |-> File(self.ltm_metadata),
      chunks      |-> File(self.ltm_chunks),
      chunk_map   |-> File(json_dump_map(self.chunk_index_map))]]

\* __init__, lines 49-59: the fields of a manager before it loads anything
\* (the files, the clock and the ids already generated outlive the process)
init_state (self) ==
  [self EXCEPT !.ltm_metadata = <<>>, !.ltm_chunks = EmptyDict,
               !.chunk_index_map = EmptyDict, !.next_vector_id = 0,
               !.ltm_index = <<>>,
               !.stm = <<>>, !.turn_count = 0, !.consolidation_count = 0,
               !.archive_metadata = <<>>,
               !.summary_threshold = config_summary_threshold]

\* _load_ltm: each file is read if it exists
_load_ltm (self) ==
  LET s1 == [self EXCEPT !.ltm_index =
               IF self.disk.faiss_index.exists
               THEN read_index(self.disk.faiss_index.data) ELSE <<>>]
      s2 == IF self.disk.metadata.exists
            THEN [s1 EXCEPT !.ltm_metadata = self.disk.metadata.data] ELSE s1
      s3 == IF self.disk.chunks.exists
            THEN [s2 EXCEPT !.ltm_chunks = self.disk.chunks.data] ELSE s2
      s4 == IF self.disk.chunk_map.exists
            THEN [s3 EXCEPT
                    !.chunk_index_map =
                       load_chunk_map(self.disk.chunk_map.data),
                    !.next_vector_id =
                       next_after(load_chunk_map(self.disk.chunk_map.data))]
            ELSE s3
  IN IF DOMAIN s4.ltm_chunks # {} /\ s4.ltm_metadata = <<>>
     THEN rebuild_legacy_metadata(s4) ELSE s4

\* ---------------------------------------------------------- batch apply
NoCounts == [added |-> 0, updated |-> 0, deleted |-> 0]

\* the for loop of apply_chunk_operations, from operation i on
\* (the "flagged" count of the duplicate check, which only logs, is left out)
RECURSIVE apply_loop (_, _, _, _)
apply_loop (self, operations, i, counts) ==
  IF i > Len(operations) THEN [self |-> self, ret |-> counts]
  ELSE
    LET op == operations[i]
    IN CASE op.type = "ADD" ->
              IF op.content = ""
              THEN apply_loop(self, operations, i + 1, counts)
              ELSE apply_loop(add_chunk(self, op.content, op.category).self,
                              operations, i + 1,
                              [counts EXCEPT !.added = @ + 1])
         [] op.type = "UPDATE" ->
              LET r == update_chunk(self, op.chunk_id, op.content, op.category)
              IN apply_loop(r.self, operations, i + 1,
                            IF r.ret THEN [counts EXCEPT !.updated = @ + 1]
                            ELSE counts)
         [] op.type = "DELETE" ->
              LET r == delete_chunk(self, op.chunk_id)
              IN apply_loop(r.self, operations, i + 1,
                            IF r.ret THEN [counts EXCEPT !.deleted = @ + 1]
                            ELSE counts)
         [] OTHER -> apply_loop(self, operations, i + 1, counts)

\* apply_chunk_operations counting every UPDATE and DELETE of the batch,
\* whether update_chunk and delete_chunk returned True or False
apply_chunk_operations_counts_all (self, operations) ==
  LET r == apply_loop(self, operations, 1, NoCounts)
      n (type) == Cardinality({i \in 1..Len(operations) :
                                 operations[i].type = type})
  IN [self |-> _save_ltm(r.self),
      ret  |-> [r.ret EXCEPT !.updated = n("UPDATE"), !.deleted = n("DELETE")]]

\* apply_chunk_operations: the loop, then a save if anything was applied
apply_chunk_operations (self, operations) ==
  LET r == apply_loop(self, operations, 1, NoCounts)
  IN IF r.ret.added + r.ret.updated + r.ret.deleted > 0
     THEN [self |-> _save_ltm(r.self), ret |-> r.ret]
     ELSE r

\* the operations a batch is made of; the ids they name may be unknown
BatchIds == {1, 2}

BatchOps ==
       {[type |-> "ADD", content |-> c, category |-> "facts", chunk_id |-> NoChunk]
          : c \in {"A", ""}}
  \cup {[type |-> "UPDATE", content |-> "B", category |-> None, chunk_id |-> id]
          : id \in BatchIds}
  \cup {[type |-> "DELETE", content |-> "", category |-> None, chunk_id |-> id]
          : id \in BatchIds}

Batches == UNION {[1..n -> BatchOps] : n \in 0..MaxOps}

\* ------------------------------------------------------ generated text
\* str.strip(): leading and trailing white space removed
Whitespace == {" ", "\n"}

RECURSIVE lstrip (_)
lstrip (str) ==
  IF Len(str) > 0 /\ SubSeq(str, 1, 1) \in Whitespace
  THEN lstrip(SubSeq(str, 2, Len(str))) ELSE str

RECURSIVE rstrip (_)
rstrip (str) ==
  IF Len(str) > 0 /\ SubSeq(str, Len(str), Len(str)) \in Whitespace
  THEN rstrip(SubSeq(str, 1, Len(str) - 1)) ELSE str

strip (str) == rstrip(lstrip(str))

\* the blocks of a generated text
Text (content) ==
  [tag |-> "TEXT", category |-> "", chunk_id |-> NoChunk, content |-> content]
Think == Text("</think>")
AddBlock (category, content) ==
  [tag |-> "ADD", category |-> category, chunk_id |-> NoChunk,
   content |-> content]
UpdateBlock (chunk_id, content) ==
  [tag |-> "UPDATE", category |-> "", chunk_id |-> chunk_id,
   content |-> content]
DeleteBlock (chunk_id) ==
  [tag |-> "DELETE", category |-> "", chunk_id |-> chunk_id, content |-> ""]

\* the characters of a block, chunk ids written as chunk_<n>
block_text (b) ==
  CASE b.tag = "TEXT"   -> b.content
    [] b.tag = "ADD"    -> "[ADD category=\"" \o b.category \o "\"]"
                             \o b.content \o "[/ADD]"
    [] b.tag = "UPDATE" -> "[UPDATE chunk_id=\"chunk_"
                             \o Digit[b.chunk_id + 1] \o "\"]"
                             \o b.content \o "[/UPDATE]"
    [] b.tag = "DELETE" -> "[DELETE chunk_id=\"chunk_"
                             \o Digit[b.chunk_id + 1] \o "\"]"

\* the characters of a generated text
RECURSIVE render (_)
render (raw) ==
  IF raw = <<>> THEN "" ELSE block_text(Head(raw)) \o render(Tail(raw))

\* "</think>" in raw
has_think (raw) == \E i \in 1..Len(raw) : raw[i] = Think

\* raw.split("</think>")[-1]: what follows the last delimiter
after_think (raw) ==
  IF has_think(raw)
  THEN LET k == CHOOSE i \in 1..Len(raw) :
                  /\ raw[i] = Think
                  /\ \A j \in (i + 1)..Len(raw) : raw[j] # Think
       IN SubSeq(raw, k + 1, Len(raw))
  ELSE raw

\* if "</think>" in raw: raw = raw.split("</think>")[-1].strip()
\* (the text is stripped only when the delimiter is there)
strip_think (raw) ==
  IF has_think(raw) THEN strip(render(after_think(raw))) ELSE render(raw)

\* ------------------------------------------------------- edit scripts
\* the operations one of the three patterns of parse_chunk_operations finds,
\* in the order of the text
RECURSIVE find_ops (_, _)
find_ops (raw, tag) ==
  IF raw = <<>> THEN <<>>
  ELSE
    LET b       == Head(raw)
        content == strip(b.content)
        keep    == /\ b.tag = tag
                   /\ CASE tag = "ADD"    -> content # ""
                        [] tag = "UPDATE" -> content # "" /\ b.chunk_id # NoChunk
                        [] tag = "DELETE" -> b.chunk_id # NoChunk
        op      == CASE tag = "ADD" ->
                          [type |-> "ADD", content |-> content,
                           category |-> strip(b.category), chunk_id |-> NoChunk]
                     [] tag = "UPDATE" ->
                          [type |-> "UPDATE", content |-> content,
                           category |-> None, chunk_id |-> b.chunk_id]
                     [] tag = "DELETE" ->
                          [type |-> "DELETE", content |-> "",
                           category |-> None, chunk_id |-> b.chunk_id]
    IN IF keep THEN <<op>> \o find_ops(Tail(raw), tag)
       ELSE find_ops(Tail(raw), tag)

\* parse_chunk_operations reading the whole text, the reasoning included
parse_chunk_operations_whole (raw_output) ==
  find_ops(raw_output, "ADD") \o find_ops(raw_output, "UPDATE")
    \o find_ops(raw_output, "DELETE")

\* parse_chunk_operations: the ADD blocks, then the UPDATE blocks, then the
\* DELETE blocks of what follows the last "</think>"
parse_chunk_operations (raw_output) ==
  LET raw == after_think(raw_output)
  IN find_ops(raw, "ADD") \o find_ops(raw, "UPDATE") \o find_ops(raw, "DELETE")

\* ------------------------------------------------- consolidation engine
\* add_to_stm: deque.append drops the oldest turn of a full buffer
\* (the turn's model name and time stamp are left out)
add_to_stm (self, user_input, assistant_output) ==
  LET turn == [input |-> user_input, output |-> assistant_output]
      kept == IF Len(self.stm) >= stm_size THEN Tail(self.stm) ELSE self.stm
  IN [self EXCEPT !.stm = Append(kept, turn), !.turn_count = @ + 1]

\* should_summarize waiting for one turn more than the threshold
should_summarize_late (self) == self.turn_count > self.summary_threshold

should_summarize (self) == self.turn_count >= self.summary_threshold

\* _create_new_index: a fresh index, every table of the store emptied
_create_new_index (self) ==
  [self EXCEPT !.ltm_index = <<>>, !.ltm_metadata = <<>>,
               !.ltm_chunks = EmptyDict, !.chunk_index_map = EmptyDict,
               !.next_vector_id = 0]

\* apply_chunk_consolidation adding the summary as a chunk in every cycle
apply_chunk_consolidation_always_adds (self, raw_output, new_summary) ==
  LET operations == parse_chunk_operations(raw_output)
      s0 == add_chunk(self, new_summary, "general").self
      s1 == apply_chunk_operations(s0, operations).self
      s2 == _save_ltm(rebuild_legacy_metadata(s1))
  IN [self |-> s2,
      ret  |-> IF s2.ltm_metadata # <<>> THEN s2.ltm_metadata[1].content
               ELSE new_summary]

\* apply_chunk_consolidation: the parsed operations, or the whole summary as
\* one chunk when nothing parsed; returns the aggregate text
apply_chunk_consolidation (self, raw_output, new_summary) ==
  LET operations == parse_chunk_operations(raw_output)
      s1 == IF operations = <<>>
            THEN add_chunk(self, new_summary, "general").self
            ELSE apply_chunk_operations(self, operations).self
      s2 == _save_ltm(rebuild_legacy_metadata(s1))
  IN [self |-> s2,
      ret  |-> IF s2.ltm_metadata # <<>> THEN s2.ltm_metadata[1].content
               ELSE new_summary]

\* get_consolidation_prompt: the mode it returns (the prompt is left out)
get_consolidation_prompt (self) ==
  IF self.chunk_consolidation_prompt # "" THEN "chunk" ELSE "rewrite"

\* apply_consolidation_result: returns the aggregate text
apply_consolidation_result (self, raw_output, mode, new_summary) ==
  IF mode = "chunk"
  THEN apply_chunk_consolidation(self, after_think(raw_output), new_summary)
  ELSE [self |-> self, ret |-> strip_think(raw_output)]

\* replace_ltm_with_consolidated: the store replaced by one aggregate text
replace_ltm_with_consolidated (self, kb) ==
  LET old == IF self.ltm_metadata # <<>> THEN self.ltm_metadata[1].content
             ELSE ""
      s1  == _create_new_index(self)
      s2  == [s1 EXCEPT !.ltm_index = index_add(s1, kb),
                        !.ltm_metadata = <<[content |-> kb,
                                            old_version |-> old]>>]
  IN [_save_ltm(s2) EXCEPT !.consolidation_count = @ + 1]

\* the capacity of the archive (line 710)
archive_capacity == 10

\* perform_deep_archive never dropping an entry
perform_deep_archive_keeps_all (self, generated) ==
  IF self.ltm_metadata = <<>> THEN self
  ELSE [self EXCEPT !.archive_metadata =
                       Append(@, [content |-> strip_think(generated),
                                  created_at |-> self.now]),
                    !.now = @ + 1]

\* perform_deep_archive, given the text engine.generate returned
perform_deep_archive (self, generated) ==
  IF self.ltm_metadata = <<>> THEN self
  ELSE
    LET distilled == strip_think(generated)
        entries   == Append(self.archive_metadata,
                            [content |-> distilled, created_at |-> self.now])
    IN [self EXCEPT !.archive_metadata =
                       IF Len(entries) > archive_capacity
                       THEN Tail(entries) ELSE entries,
                    !.now = @ + 1]

\* restore_from_archive without the test 0 <= index: a negative index counts
\* from the end of the list
restore_from_archive_wrapping (self, index) ==
  IF -Len(self.archive_metadata) <= index /\ index < Len(self.archive_metadata)
  THEN [self |-> replace_ltm_with_consolidated(
                   self,
                   self.archive_metadata[
                     (IF index < 0 THEN Len(self.archive_metadata) + index
                      ELSE index) + 1].content),
        ret  |-> TRUE]
  ELSE [self |-> self, ret |-> FALSE]

\* restore_from_archive (index counted from 0): the store replaced by the
\* text of one archive entry; False when there is no such entry
restore_from_archive (self, index) ==
  IF 0 <= index /\ index < Len(self.archive_metadata)
  THEN [self |-> replace_ltm_with_consolidated(
                   self, self.archive_metadata[index + 1].content),
        ret  |-> TRUE]
  ELSE [self |-> self, ret |-> FALSE]

\* reset_turn_counter leaving the count as it is
reset_turn_counter_skipped (self) == self

reset_turn_counter (self) == [self EXCEPT !.turn_count = 0]

\* export_stm: the turns of the buffer written to short_term_memory.md
export_stm (self) == [self EXCEPT !.snapshots.stm = File(self.stm)]

\* export_ltm: one ```markdown block per entry of ltm_metadata, reversed
export_ltm (self) ==
  LET n == Len(self.ltm_metadata)
  IN [self EXCEPT !.snapshots.ltm =
        File([i \in 1..n |-> self.ltm_metadata[n + 1 - i].content])]

\* export_all (archived_memory.md, which nothing reads back, is left out)
export_all (self) == export_ltm(export_stm(self))

\* the last turns of a list that a deque of stm_size keeps
RECURSIVE deque_of (_)
deque_of (turns) ==
  IF Len(turns) > stm_size THEN deque_of(Tail(turns)) ELSE turns

\* load_memory_from_snapshots without the test of lines 101-103
load_memory_from_snapshots_unguarded (self) ==
  LET blocks     == IF self.snapshots.ltm.exists
                    THEN self.snapshots.ltm.data ELSE <<>>
      kb_content == IF blocks # <<>> THEN strip(blocks[Len(blocks)]) ELSE ""
      s1 == IF kb_content # ""
            THEN [_create_new_index(self) EXCEPT
                    !.ltm_metadata = <<[content |-> kb_content]>>,
                    !.ltm_index = <<encode(kb_content)>>]
            ELSE self
      turns == IF self.snapshots.stm.exists
               THEN [i \in 1..Len(self.snapshots.stm.data) |->
                       [input  |-> strip(self.snapshots.stm.data[i].input),
                        output |-> strip(self.snapshots.stm.data[i].output)]]
               ELSE <<>>
  IN IF self.snapshots.stm.exists
     THEN [s1 EXCEPT !.stm = deque_of(turns),
                     !.turn_count = Len(turns) % self.summary_threshold]
     ELSE s1

\* load_memory_from_snapshots: nothing when the index has vectors; otherwise
\* the last exported knowledge text becomes the store's only vector, and the
\* exported turns become the buffer
load_memory_from_snapshots (self) ==
  IF ntotal(self) > 0 THEN self
  ELSE
    LET blocks     == IF self.snapshots.ltm.exists
                      THEN self.snapshots.ltm.data ELSE <<>>
        kb_content == IF blocks # <<>> THEN strip(blocks[Len(blocks)]) ELSE ""
        s1 == IF kb_content # ""
              THEN [_create_new_index(self) EXCEPT
                      !.ltm_metadata = <<[content |-> kb_content]>>,
                      !.ltm_index = <<encode(kb_content)>>]
              ELSE self
        turns == IF self.snapshots.stm.exists
                 THEN [i \in 1..Len(self.snapshots.stm.data) |->
                         [input  |-> strip(self.snapshots.stm.data[i].input),
                          output |-> strip(self.snapshots.stm.data[i].output)]]
                 ELSE <<>>
    IN IF self.snapshots.stm.exists
       THEN [s1 EXCEPT !.stm = deque_of(turns),
                       !.turn_count = Len(turns) % self.summary_threshold]
       ELSE s1

\* sync_all_from_files
sync_all_from_files (self) == load_memory_from_snapshots(self)

\* the test of the commit letting every text through
plausible_always (full_kb) == TRUE

\* len(full_kb.strip()) > 10, the test of the commit
plausible (full_kb) == Len(strip(full_kb)) > 10

\* _save_ltm raising after it has written the first `written` of its four
\* files (faiss.index, metadata.json, chunks.json, chunk_map.json)
_save_ltm_error (self, written) ==
  [self EXCEPT !.disk =
     [faiss_index |-> IF written >= 1
                      THEN File(write_index(self.ltm_index))
                      ELSE self.disk.faiss_index,
      metadata    |-> IF written >= 2 THEN File(self.ltm_metadata)
                      ELSE self.disk.metadata,
      chunks      |-> IF written >= 3 THEN File(self.ltm_chunks)
                      ELSE self.disk.chunks,
      chunk_map   |-> self.disk.chunk_map]]

\* apply_chunk_consolidation left by the exception of a _save_ltm: that of
\* apply_chunk_operations when in_batch holds and the batch applied
\* something, otherwise that of line 664
apply_chunk_consolidation_save_error (self, raw_output, new_summary, in_batch, written) ==
  LET operations == parse_chunk_operations(raw_output)
  IN IF operations = <<>>
     THEN _save_ltm_error(
            rebuild_legacy_metadata(add_chunk(self, new_summary, "general").self),
            written)
     ELSE \* r: the loop of apply_chunk_operations
       LET r     == apply_loop(self, operations, 1, NoCounts)
           saved == r.ret.added + r.ret.updated + r.ret.deleted > 0
       IN IF saved /\ in_batch
          THEN _save_ltm_error(r.self, written)
          ELSE _save_ltm_error(
                 rebuild_legacy_metadata(IF saved THEN _save_ltm(r.self)
                                         ELSE r.self),
                 written)

\* replace_ltm_with_consolidated counting the consolidation before it saves
replace_ltm_with_consolidated_counted_error (self, kb, written) ==
  LET s1 == _create_new_index(self)
      s2 == [s1 EXCEPT !.ltm_index = index_add(s1, kb),
                       !.ltm_metadata = <<[content |-> kb]>>,
                       !.consolidation_count = @ + 1]
  IN _save_ltm_error(s2, written)

\* replace_ltm_with_consolidated left by the exception of its _save_ltm
\* (line 725), before consolidation_count is incremented
replace_ltm_with_consolidated_save_error (self, kb, written) ==
  LET old == IF self.ltm_metadata # <<>> THEN self.ltm_metadata[1].content
             ELSE ""
      s1  == _create_new_index(self)
      s2  == [s1 EXCEPT !.ltm_index = index_add(s1, kb),
                        !.ltm_metadata = <<[content |-> kb,
                                            old_version |-> old]>>]
  IN _save_ltm_error(s2, written)

\* the consolidation of a request in which a _save_ltm raises: the manager
\* the exception leaves, and whether a _save_ltm was called at all (in
\* rewrite mode it is not when the text fails the test of the commit)
consolidate_save_error (self, mode, sum_text, delta_output, in_batch, written) ==
  IF mode = "chunk"
  THEN [self   |-> apply_chunk_consolidation_save_error(
                     self, after_think(delta_output), sum_text, in_batch,
                     written),
        raised |-> TRUE]
  ELSE IF plausible(strip_think(delta_output))
  THEN [self   |-> replace_ltm_with_consolidated_save_error(
                     self, strip_think(delta_output), written),
        raised |-> TRUE]
  ELSE [self |-> self, raised |-> FALSE]

\* lines 114-124: the buffer is cleared and the counter reset when the
\* aggregate text r.ret passes the test; r.self is the manager after
\* apply_consolidation_result
commit_or_abort (r, mode) ==
  IF plausible(r.ret)
  THEN reset_turn_counter(
         [(IF mode # "chunk"
           THEN replace_ltm_with_consolidated(r.self, r.ret)
           ELSE r.self) EXCEPT !.stm = <<>>])
  ELSE r.self

\* lines 126-128: the deep archive when consolidation_count is due
archive_check (self, distill_output) ==
  IF self.consolidation_count >= archive_threshold
  THEN [perform_deep_archive(self, distill_output)
          EXCEPT !.consolidation_count = 0]
  ELSE self

\* the manager after the cycle and a report of the cycle: r is the result of
\* apply_consolidation_result, s1 the manager after commit_or_abort
cycle_report (mode, sum_text, r, s1, parsed, distill_output) ==
  [self |-> archive_check(s1, distill_output),
   ret  |-> [mode |-> mode, summary |-> sum_text, kb |-> r.ret,
             outcome |-> IF plausible(r.ret) THEN "commit" ELSE "abort",
             parsed |-> parsed,
             count_before_check |-> s1.consolidation_count,
             archived |-> /\ s1.consolidation_count >= archive_threshold
                          /\ s1.ltm_metadata # <<>>]]

\* lines 112-128, from the result r of apply_consolidation_result on
cycle_end (mode, sum_text, r, parsed, distill_output) ==
  cycle_report(mode, sum_text, r, commit_or_abort(r, mode), parsed,
               distill_output)

\* lines 104-128, from the summary text and the mode on
cycle_body (self, mode, sum_text, delta_output, distill_output) ==
  cycle_end(mode, sum_text,
            apply_consolidation_result(self, delta_output, mode, sum_text),
            IF mode = "chunk"
            THEN Len(parse_chunk_operations(after_think(delta_output)))
            ELSE 0,
            distill_output)

\* the consolidation of chat.stream_generator (lines 88-131), given the
\* texts the generative service returns for the summary, the edit script
\* and the distillation; returns the manager and a report of the cycle
consolidate (self, summary_output, delta_output, distill_output) ==
  cycle_body(self, get_consolidation_prompt(self),
             strip_think(summary_output), delta_output, distill_output)

\* ---------------------------------------------------------------- actions
NoCall == [op |-> "none"]

Init ==
  /\ ltm_chunks = EmptyDict
  /\ chunk_index_map = EmptyDict
  /\ next_vector_id = 0
  /\ ltm_index = <<>>
  /\ ltm_metadata = <<>>
  /\ disk = [faiss_index |-> NoFile, metadata |-> NoFile,
             chunks |-> NoFile, chunk_map |-> NoFile]
  /\ now = 0
  /\ issued = 0
  /\ stm = <<>>
  /\ turn_count = 0
  /\ consolidation_count = 0
  /\ archive_metadata = <<>>
  /\ summary_threshold = config_summary_threshold
  /\ chunk_consolidation_prompt = ChunkPrompt
  /\ snapshots = [stm |-> NoFile, ltm |-> NoFile]
  /\ last = NoCall
  /\ deleted_ids = {}
  /\ commits = 0
  /\ inflight = [q \in Requests |-> Idle]

AddChunk ==
  \E input \in AddInputs :
   LET content == input[1]   category == input[2] IN
    /\ ntotal(mm) < MaxSlots
    /\ issued < MaxIds
    /\ now < MaxTime
    /\ LET r == add_chunk(mm, content, category)
       IN /\ SetMM(r.self)
          /\ last' = [op |-> "add", content |-> content,
                      category |-> category, ret |-> r.ret]
          /\ UNCHANGED <<deleted_ids, commits>>

UpdateChunk ==
  \E chunk_id \in ChunkIds, input \in UpdateInputs :
   LET new_content == input[1]   category == input[2] IN
    /\ ntotal(mm) < MaxSlots
    /\ now < MaxTime
    /\ LET r == update_chunk(mm, chunk_id, new_content, category)
       IN /\ SetMM(r.self)
          /\ last' = [op |-> "update", chunk_id |-> chunk_id,
                      content |-> new_content, category |-> category,
                      ret |-> r.ret]
          /\ UNCHANGED <<deleted_ids, commits>>

DeleteChunk ==
  \E chunk_id \in ChunkIds :
    LET r == delete_chunk(mm, chunk_id)
    IN /\ SetMM(r.self)
       /\ last' = [op |-> "delete", chunk_id |-> chunk_id, ret |-> r.ret]
       /\ deleted_ids' = IF r.ret THEN deleted_ids \cup {chunk_id} ELSE deleted_ids
       /\ UNCHANGED commits

RetrieveChunks ==
  \E query \in Queries, top_k \in 1..MaxK :
    /\ UNCHANGED <<ltm_chunks, chunk_index_map, next_vector_id, ltm_index,
                   ltm_metadata, disk, now, issued, stm, turn_count,
                   consolidation_count, archive_metadata, summary_threshold,
                   chunk_consolidation_prompt, snapshots, deleted_ids,
                   commits, inflight>>
    /\ IF ntotal(mm) = 0
       THEN last' = [op |-> "retrieve", query |-> query, top_k |-> top_k,
                     searched |-> <<>>, ret |-> <<>>]
       ELSE \E indices \in index_search(mm, query, search_breadth(mm, top_k)) :
              last' = [op |-> "retrieve", query |-> query, top_k |-> top_k,
                       searched |-> indices,
                       ret |-> retrieve_chunks(mm, indices, top_k)]

ApplyChunkOperations ==
  \E operations \in Batches :
    LET r == apply_chunk_operations(mm, operations)
    IN /\ ntotal(r.self) <= MaxSlots
       /\ r.self.issued <= MaxIds
       /\ r.self.now <= MaxTime
       /\ SetMM(r.self)
       /\ last' = [op |-> "apply", size |-> Len(operations), ret |-> r.ret]
       /\ deleted_ids' = deleted_ids \cup (DOMAIN ltm_chunks \ DOMAIN r.self.ltm_chunks)
       /\ UNCHANGED commits

\* persisting the store: a call of _save_ltm
SaveLtm ==
  /\ SetMM(_save_ltm(mm))
  /\ last' = [op |-> "save"]
  /\ UNCHANGED <<deleted_ids, commits>>

\* reloading the store: a new MemoryManager over the same files
Reload ==
  /\ SetMM(load_memory_from_snapshots(_load_ltm(init_state(mm))))
  /\ last' = [op |-> "reload", after |-> last.op]
  /\ UNCHANGED <<deleted_ids, commits>>

\* the chunk store under add, update, delete and retrieve
Next == AddChunk \/ UpdateChunk \/ DeleteChunk \/ RetrieveChunks

Spec == Init /\ [][Next]_vars

\* the chunk store under add and batch apply; updates and deletes run as
\* operations of a batch, as they do in main.py, where apply_chunk_operations
\* is the only caller of update_chunk and delete_chunk
NextBatch == AddChunk \/ ApplyChunkOperations

SpecBatch == Init /\ [][NextBatch]_vars

\* the chunk store under add, update, delete, persist and reload
NextPersist == AddChunk \/ UpdateChunk \/ DeleteChunk \/ SaveLtm \/ Reload

SpecPersist == Init /\ [][NextPersist]_vars

\* ------------------------------------------------- consolidation engine
\* what a request and the generative service may supply
UserInputs        == {"u1", "u2"}
RequestThresholds == {1, 2}
SummaryOutputs    == {<<>>, <<Text("r"), Think, Text("\nB")>>}
DeltaOutputs ==
  {<<>>,
   <<AddBlock("general", "\nA\n")>>,
   <<UpdateBlock(1, "\nB\n")>>,
   <<DeleteBlock(1)>>}
DistillOutputs    == {<<Text("r"), Think, Text(" E ")>>}

NoCycle == [mode |-> "", summary |-> "", kb |-> "", outcome |-> "none",
            parsed |-> 0, count_before_check |-> 0, archived |-> FALSE]

\* the markers chat.stream_generator yields after the reply (the text of
\* the generative service, yielded in between, is left out)
chat_signals (ran, report) ==
  IF ~ran THEN <<"__METADATA__">>
  ELSE <<"__MEMORY_CHUNK__", "[SYSTEM]">>
       \o (IF report.outcome = "abort" THEN <<"[ERROR]">> ELSE <<>>)
       \o <<"__METADATA__">>

\* sleep_generator never yielding its "[ERROR]: Deep sleep failed" marker
sleep_signals_silent (ran, report) ==
  IF ~ran THEN <<"__METADATA__nothing_to_consolidate">>
  ELSE <<"__MEMORY_CHUNK__", "[SYSTEM]", "__METADATA__slept">>

\* the markers sleep_generator yields (lines 147, 157, 167, 184, 191)
sleep_signals (ran, report) ==
  IF ~ran THEN <<"__METADATA__nothing_to_consolidate">>
  ELSE <<"__MEMORY_CHUNK__", "[SYSTEM]">>
       \o (IF report.outcome = "abort" THEN <<"[ERROR]">> ELSE <<>>)
       \o <<"__METADATA__slept">>

\* the history kept of a request: the buffer and the counters the cycle
\* started from, the report of the cycle and the markers yielded
Cycle (op, s1, ran, report) ==
  [op |-> op, buffer |-> s1.stm, count |-> s1.turn_count, ran |-> ran,
   threshold |-> s1.summary_threshold, cycle |-> report,
   signals |-> IF op = "sleep" THEN sleep_signals(ran, report)
               ELSE chat_signals(ran, report)]

Committed (r) ==
  /\ commits' = IF r.ret.archived THEN 0
                ELSE IF r.ret.outcome = "commit" THEN commits + 1
                ELSE commits
  /\ commits' <= MaxCommits
  /\ deleted_ids' = deleted_ids \cup (DOMAIN ltm_chunks \ DOMAIN r.self.ltm_chunks)

WithinBounds (self) ==
  /\ ntotal(self) <= MaxSlots
  /\ self.issued <= MaxIds
  /\ self.now <= MaxTime

\* POST /chat: the turn is buffered, and a consolidation cycle runs when
\* the count of turns has reached the threshold of the request
Chat ==
  \E user_input \in UserInputs, threshold \in RequestThresholds :
    /\ turn_count < MaxTurns
    /\ LET s0 == [mm EXCEPT !.summary_threshold = threshold]
           s1 == export_stm(add_to_stm(s0, user_input, "ok"))
       IN IF should_summarize(s1)
          THEN \E summary_output \in SummaryOutputs,
                  delta_output \in DeltaOutputs,
                  distill_output \in DistillOutputs :
               \E r \in {consolidate(s1, summary_output, delta_output,
                                      distill_output)} :
                  /\ WithinBounds(r.self)
                  /\ SetMM(export_all(r.self))
                  /\ last' = Cycle("chat", s1, TRUE, r.ret)
                  /\ Committed(r)
          ELSE /\ SetMM(s1)
               /\ last' = Cycle("chat", s1, FALSE, NoCycle)
               /\ UNCHANGED <<deleted_ids, commits>>

\* POST /chat/sleep: a consolidation cycle over the buffer as it is
Sleep ==
  LET s0 == sync_all_from_files(mm)
  IN IF s0.stm = <<>>
     THEN /\ SetMM(s0)
          /\ last' = Cycle("sleep", s0, FALSE, NoCycle)
          /\ UNCHANGED <<deleted_ids, commits>>
     ELSE \E threshold \in RequestThresholds,
             summary_output \in SummaryOutputs,
             delta_output \in DeltaOutputs,
             distill_output \in DistillOutputs :
          \E s1 \in {[s0 EXCEPT !.summary_threshold = threshold]} :
          \E r \in {consolidate(s1, summary_output, delta_output,
                                 distill_output)} :
             /\ WithinBounds(r.self)
             /\ SetMM(export_all(r.self))
             /\ last' = Cycle("sleep", s1, TRUE, r.ret)
             /\ Committed(r)

\* the manager as configured with or without a chunk consolidation prompt
InitEngine ==
  /\ ltm_chunks = EmptyDict
  /\ chunk_index_map = EmptyDict
  /\ next_vector_id = 0
  /\ ltm_index = <<>>
  /\ ltm_metadata = <<>>
  /\ disk = [faiss_index |-> NoFile, metadata |-> NoFile,
             chunks |-> NoFile, chunk_map |-> NoFile]
  /\ now = 0
  /\ issued = 0
  /\ stm = <<>>
  /\ turn_count = 0
  /\ consolidation_count = 0
  /\ archive_metadata = <<>>
  /\ summary_threshold = config_summary_threshold
  /\ chunk_consolidation_prompt \in {"", ChunkPrompt}
  /\ snapshots = [stm |-> NoFile, ltm |-> NoFile]
  /\ last = NoCall
  /\ deleted_ids = {}
  /\ commits = 0
  /\ inflight = [q \in Requests |-> Idle]

NextEngine == Chat \/ Sleep

SpecEngine == InitEngine /\ [][NextEngine]_vars

\* ------------------------------------------- generative service failure
\* what generate_stream yields when the call of the service raises e: the
\* exception is caught and its message is the last piece of the stream
generate_stream_error == <<Text("Error in stream: e")>>

\* POST /chat with the threshold reached while the generative service fails
\* in the summarization call, in the edit-script call, or in both
ChatGenerativeError ==
  \E user_input \in UserInputs, threshold \in RequestThresholds :
    /\ turn_count < MaxTurns
    /\ \E s1 \in {export_stm(add_to_stm([mm EXCEPT !.summary_threshold = threshold],
                                          user_input, "ok"))} :
         /\ should_summarize(s1)
         /\ \E summary_output \in SummaryOutputs \cup {generate_stream_error},
               delta_output \in DeltaOutputs \cup {generate_stream_error},
               distill_output \in DistillOutputs :
              /\ generate_stream_error \in {summary_output, delta_output}
              /\ \E r \in {consolidate(s1, summary_output, delta_output,
                                         distill_output)} :
                   /\ WithinBounds(r.self)
                   /\ SetMM(export_all(r.self))
                   /\ last' = Cycle("chat_error", s1, TRUE, r.ret)
                   /\ Committed(r)

NextGenFail == Chat \/ ChatGenerativeError

SpecGenFail == InitEngine /\ [][NextGenFail]_vars

\* ------------------------------------------------- restore and clear
\* the positions a restore request may name, newest entry first
RestoreIndexes == {0, 1}

\* POST /memory/restore: the position of the request is counted from the
\* newest entry; answers 404, changing nothing, when there is no such entry
RestoreMemory ==
  \E idx \in RestoreIndexes :
    \E actual_idx \in {Len(archive_metadata) - 1 - idx} :
    \E r \in {restore_from_archive(mm, actual_idx)} :
      /\ r.self.consolidation_count <= MaxCommits
      /\ SetMM(IF r.ret THEN export_ltm(r.self) ELSE r.self)
      /\ last' = [op |-> "restore", ret |-> r.ret,
                  entry |-> IF r.ret
                            THEN archive_metadata[actual_idx + 1].content
                            ELSE ""]
      /\ deleted_ids' = deleted_ids \cup (DOMAIN ltm_chunks \ DOMAIN r.self.ltm_chunks)
      /\ UNCHANGED commits

\* POST /memory/clear
ClearMemory ==
  /\ SetMM([_save_ltm(_create_new_index(mm)) EXCEPT !.stm = <<>>,
                                                    !.turn_count = 0])
  /\ last' = [op |-> "clear"]
  /\ deleted_ids' = deleted_ids \cup DOMAIN ltm_chunks
  /\ UNCHANGED commits

\* the configurations a process may be started with
ConfiguredPrompts == {"", ChunkPrompt}

\* the process started again over the same files, under a configuration
\* with or without a chunk consolidation prompt
Restart ==
  \E prompt \in ConfiguredPrompts :
    /\ SetMM([load_memory_from_snapshots(_load_ltm(init_state(mm))) EXCEPT
                !.chunk_consolidation_prompt = prompt])
    /\ last' = [op |-> "restart"]
    /\ UNCHANGED <<deleted_ids, commits>>

\* POST /chat with summary_threshold 1: every turn runs a consolidation
\* cycle, in the mode of the configuration
ChatConsolidating ==
  /\ turn_count < MaxTurns
  /\ \E s1 \in {export_stm(add_to_stm([mm EXCEPT !.summary_threshold = 1],
                                        "u1", "ok"))} :
     \E summary_output \in SummaryOutputs, delta_output \in DeltaOutputs,
        distill_output \in DistillOutputs :
     \E r \in {consolidate(s1, summary_output, delta_output, distill_output)} :
       /\ should_summarize(s1)
       /\ WithinBounds(r.self)
       /\ SetMM(export_all(r.self))
       /\ last' = Cycle("chat", s1, TRUE, r.ret)
       /\ Committed(r)

NextRestore == ChatConsolidating \/ RestoreMemory \/ ClearMemory \/ Restart

SpecRestore == InitEngine /\ [][NextRestore]_vars

\* ------------------------------------------- restore of an older entry
\* the texts the consolidation and the deep archive of a request generate:
\* a knowledge base long enough to commit, and two distillations
ArchivingDeltaOutputs   == {<<DeleteBlock(1)>>}
ArchivingDistillOutputs == DistillOutputs \cup {<<Text("r"), Think, Text(" F ")>>}

\* POST /chat with summary_threshold 1, the archive receiving entries of
\* different texts
ChatArchiving ==
  /\ turn_count < MaxTurns
  /\ \E s1 \in {export_stm(add_to_stm([mm EXCEPT !.summary_threshold = 1],
                                        "u1", "ok"))} :
     \E summary_output \in SummaryOutputs,
        delta_output \in ArchivingDeltaOutputs,
        distill_output \in ArchivingDistillOutputs :
     \E r \in {consolidate(s1, summary_output, delta_output, distill_output)} :
       /\ should_summarize(s1)
       /\ WithinBounds(r.self)
       /\ SetMM(export_all(r.self))
       /\ last' = Cycle("chat", s1, TRUE, r.ret)
       /\ Committed(r)

\* the positions a restore request may name, in and out of the archive
DisplayIndexes == {-1, 0, 1, 2}

\* POST /memory/restore, the position of the request recorded
RestoreMemoryAt ==
  \E idx \in DisplayIndexes :
    \E actual_idx \in {Len(archive_metadata) - 1 - idx} :
    \E r \in {restore_from_archive(mm, actual_idx)} :
      /\ r.self.consolidation_count <= MaxCommits
      /\ SetMM(IF r.ret THEN export_ltm(r.self) ELSE r.self)
      /\ last' = [op |-> "restore_at", index |-> idx, ret |-> r.ret]
      /\ deleted_ids' = deleted_ids \cup (DOMAIN ltm_chunks \ DOMAIN r.self.ltm_chunks)
      /\ UNCHANGED commits

NextRestoreAt == ChatArchiving \/ RestoreMemoryAt

SpecRestoreAt == InitEngine /\ [][NextRestoreAt]_vars

\* ---------------------------------------------------------- conflict scan
\* the similarity thresholds a request may set, in hundredths (0.85 is the
\* default of the configuration)
SimilarityThresholds == {85, 99}

\* GET /memory/scan-conflicts under the settings the last chat request left
ScanConflicts ==
  \E enable_similarity_check \in BOOLEAN,
     similarity_threshold \in SimilarityThresholds :
    \E conflicts \in scan_all_chunks_for_conflicts(mm, enable_similarity_check,
                                                  similarity_threshold) :
      /\ last' = [op |-> "scan", enabled |-> enable_similarity_check,
                  threshold |-> similarity_threshold, ret |-> conflicts]
      /\ UNCHANGED <<ltm_chunks, chunk_index_map, next_vector_id, ltm_index,
                     ltm_metadata, disk, now, issued, stm, turn_count,
                     consolidation_count, archive_metadata, summary_threshold,
                     chunk_consolidation_prompt, snapshots, deleted_ids,
                     commits, inflight>>

NextScan == AddChunk \/ UpdateChunk \/ DeleteChunk \/ ScanConflicts

SpecScan == Init /\ [][NextScan]_vars

\* --------------------------------------------- requests in flight together
\* POST /chat up to its first yield after the reply: the turn is buffered;
\* when the count has reached the threshold the generator builds the
\* summary prompt sp from the turns of the buffer (create_summary_prompt)
\* and is suspended at the yield of "__MEMORY_CHUNK__"
ChatStart ==
  \E q \in Requests, user_input \in UserInputs,
     threshold \in RequestThresholds :
    /\ inflight[q] = Idle
    /\ turn_count < MaxTurns
    /\ \E s1 \in {export_stm(add_to_stm([mm EXCEPT !.summary_threshold = threshold],
                                         user_input, "ok"))} :
         /\ SetFields(s1)
         /\ inflight' = [inflight EXCEPT ![q] =
                           IF should_summarize(s1)
                           THEN [pc |-> "cycle", sp |-> s1.stm,
                                 count |-> s1.turn_count]
                           ELSE Idle]
         /\ last' = [op |-> "chat_start", request |-> q,
                     ran |-> should_summarize(s1)]
         /\ UNCHANGED <<deleted_ids, commits>>

\* the edit scripts of the cycles of requests in flight together
InFlightScripts == {<<>>, <<DeleteBlock(1)>>}

\* the rest of the generator of POST /chat, resumed after the yield: the two
\* calls of the generative service, the application of the result and the
\* test of the commit, over the manager as it is by then (the yields in
\* between, where the generator may be suspended again, are not modelled)
ChatResume ==
  \E q \in Requests, summary_output \in SummaryOutputs,
     delta_output \in InFlightScripts, distill_output \in DistillOutputs :
    /\ inflight[q].pc = "cycle"
    /\ \E r \in {consolidate(mm, summary_output, delta_output, distill_output)} :
         /\ WithinBounds(r.self)
         /\ SetFields(export_all(r.self))
         /\ inflight' = [inflight EXCEPT ![q] = Idle]
         /\ last' = [op |-> "chat_resume", request |-> q,
                     sp |-> inflight[q].sp, count |-> inflight[q].count,
                     outcome |-> r.ret.outcome]
         /\ Committed(r)

NextInFlight == ChatStart \/ ChatResume \/ ClearMemory

SpecInFlight == InitEngine /\ [][NextInFlight]_vars

\* ------------------------------------------------------------ the parser
\* the blocks of the texts handed to the parser: blocks with and without
\* content, plain text and the delimiter that ends the reasoning
ParsedBlocks ==
  {AddBlock("facts", " B "), AddBlock("facts", " \n"),
   UpdateBlock(1, "\nA\n"), UpdateBlock(1, ""), DeleteBlock(1),
   Text("note"), Think}

ParsedTexts == UNION {[1..n -> ParsedBlocks] : n \in 0..MaxBlocks}

\* a call of parse_chunk_operations on the text that was generated
ParseChunkOperations ==
  \E raw_output \in {last.raw_output} :
    /\ last.op = "generated"
    /\ last' = [op |-> "parse", raw_output |-> raw_output,
                ret |-> parse_chunk_operations(raw_output)]
    /\ UNCHANGED <<ltm_chunks, chunk_index_map, next_vector_id, ltm_index,
                   ltm_metadata, disk, now, issued, stm, turn_count,
                   consolidation_count, archive_metadata, summary_threshold,
                   chunk_consolidation_prompt, snapshots, deleted_ids,
                   commits, inflight>>

NextParse == ParseChunkOperations

\* an empty store, and a text the generative service has returned
InitParse ==
  /\ ltm_chunks = EmptyDict
  /\ chunk_index_map = EmptyDict
  /\ next_vector_id = 0
  /\ ltm_index = <<>>
  /\ ltm_metadata = <<>>
  /\ disk = [faiss_index |-> NoFile, metadata |-> NoFile,
             chunks |-> NoFile, chunk_map |-> NoFile]
  /\ now = 0
  /\ issued = 0
  /\ stm = <<>>
  /\ turn_count = 0
  /\ consolidation_count = 0
  /\ archive_metadata = <<>>
  /\ summary_threshold = config_summary_threshold
  /\ chunk_consolidation_prompt = ChunkPrompt
  /\ snapshots = [stm |-> NoFile, ltm |-> NoFile]
  /\ last \in {[op |-> "generated", raw_output |-> t] : t \in ParsedTexts}
  /\ deleted_ids = {}
  /\ commits = 0
  /\ inflight = [q \in Requests |-> Idle]

SpecParse == InitParse /\ [][NextParse]_vars

\* ------------------------------------------------- failure of the write
\* the files _save_ltm may have written when it raises
WrittenFiles == {0, 2}

\* what the generative service returns in the cycles whose write fails
FailedCycleSummaries == {<<Text("r"), Think, Text("\nB")>>}
FailedCycleScripts   == {<<>>, <<UpdateBlock(1, "\nB\n")>>}

\* the markers a chat response carries when its generator is left by an
\* exception, which ends the stream, and when the generator of sleep
\* catches one (line 194)
chat_signals_raised == <<"__MEMORY_CHUNK__", "[SYSTEM]">>
sleep_signals_raised == <<"__MEMORY_CHUNK__", "[SYSTEM]", "__METADATA__error">>

\* POST /chat with summary_threshold 1 in which a _save_ltm of the cycle
\* raises
ChatSaveError ==
  \E summary_output \in FailedCycleSummaries,
     delta_output \in FailedCycleScripts,
     in_batch \in BOOLEAN, written \in WrittenFiles :
    /\ turn_count < MaxTurns
    /\ \E s1 \in {export_stm(add_to_stm([mm EXCEPT !.summary_threshold = 1],
                                         "u1", "ok"))} :
       \E r \in {consolidate_save_error(s1, get_consolidation_prompt(s1),
                                        strip_think(summary_output),
                                        delta_output, in_batch, written)} :
         /\ should_summarize(s1)
         /\ r.raised
         /\ WithinBounds(r.self)
         /\ SetMM(r.self)
         /\ last' = [op |-> "chat_save_error", buffer |-> s1.stm,
                     count |-> s1.turn_count, raised |-> TRUE,
                     signals |-> chat_signals_raised]
         /\ deleted_ids' = deleted_ids \cup (DOMAIN ltm_chunks \ DOMAIN r.self.ltm_chunks)
         /\ UNCHANGED commits

\* POST /chat/sleep in which a _save_ltm of the cycle raises
SleepSaveError ==
  \E summary_output \in FailedCycleSummaries,
     delta_output \in FailedCycleScripts,
     in_batch \in BOOLEAN, written \in WrittenFiles :
    \E s1 \in {[sync_all_from_files(mm) EXCEPT !.summary_threshold = 1]} :
    \E r \in {consolidate_save_error(s1, get_consolidation_prompt(s1),
                                     strip_think(summary_output),
                                     delta_output, in_batch, written)} :
      /\ s1.stm # <<>>
      /\ r.raised
      /\ WithinBounds(r.self)
      /\ SetMM(r.self)
      /\ last' = [op |-> "sleep_save_error", buffer |-> s1.stm,
                  count |-> s1.turn_count, raised |-> FALSE,
                  signals |-> sleep_signals_raised]
      /\ deleted_ids' = deleted_ids \cup (DOMAIN ltm_chunks \ DOMAIN r.self.ltm_chunks)
      /\ UNCHANGED commits

NextSaveFail == ChatConsolidating \/ ChatSaveError \/ SleepSaveError

SpecSaveFail == InitEngine /\ [][NextSaveFail]_vars

\* ------------------------------------------------- the size of the buffer
\* the stm_size a request may carry (the configuration has stm_size)
RequestStmSizes == {1, 2, 3}

\* get_stats: the entries stm_count, stm_max and turn_count of the report,
\* the attribute mm.stm_size being the stm_size of the last request
get_stats (self, request_stm_size) ==
  [stm_count |-> Len(self.stm), stm_max |-> request_stm_size,
   turn_count |-> self.turn_count]

\* POST /chat of a request that carries its stm_size: the handler assigns
\* it to mm.stm_size (line 67), which only get_stats reads; the deque keeps
\* the maxlen it was built with
ChatStmSize ==
  \E user_input \in UserInputs, threshold \in RequestThresholds,
     request_stm_size \in RequestStmSizes :
    /\ turn_count < MaxTurns
    /\ \E s1 \in {export_stm(add_to_stm([mm EXCEPT !.summary_threshold = threshold],
                                         user_input, "ok"))} :
         IF should_summarize(s1)
         THEN \E summary_output \in SummaryOutputs,
                 delta_output \in DeltaOutputs,
                 distill_output \in DistillOutputs :
              \E r \in {consolidate(s1, summary_output, delta_output,
                                     distill_output)} :
                 /\ WithinBounds(r.self)
                 /\ SetMM(export_all(r.self))
                 /\ last' = [op |-> "chat_stm_size", ran |-> TRUE,
                             turn |-> [input |-> user_input, output |-> "ok"],
                             memory_stats |-> get_stats(r.self, request_stm_size)]
                 /\ Committed(r)
         ELSE /\ SetMM(s1)
              /\ last' = [op |-> "chat_stm_size", ran |-> FALSE,
                          turn |-> [input |-> user_input, output |-> "ok"],
                          memory_stats |-> get_stats(s1, request_stm_size)]
              /\ UNCHANGED <<deleted_ids, commits>>

NextStmSize == ChatStmSize

SpecStmSize == InitEngine /\ [][NextStmSize]_vars

\* ------------------------------------------------------ snapshot recovery
\* a call of sync_all_from_files on the running manager
SyncAllFromFiles ==
  /\ SetMM(sync_all_from_files(mm))
  /\ last' = [op |-> "sync", slots |-> Len(ltm_index)]
  /\ UNCHANGED <<deleted_ids, commits>>

NextSync == Chat \/ SyncAllFromFiles

SpecSync == InitEngine /\ [][NextSync]_vars

\* ----------------------------------------------------- the archive ring
\* rewrite mode with every turn consolidated: what the generative service
\* may return for the knowledge text and for the distillation
RewriteOutputs ==
  {<<Text("knowledge A.")>>, <<Text("r"), Think, Text(" knowledge B. ")>>}
ArchiveDistillOutputs == {<<Text("r"), Think, Text(" E ")>>, <<Text("F")>>}

\* the distillations made so far, oldest first
Distilled (history, r, distill_output) ==
  IF r.ret.archived
  THEN Append(history, [content |-> strip_think(distill_output),
                        created_at |-> now])
  ELSE history

\* POST /chat with summary_threshold 1 while no chunk prompt is configured
ChatRewrite ==
  \E user_input \in UserInputs,
     delta_output \in RewriteOutputs,
     distill_output \in ArchiveDistillOutputs :
    \E s1 \in {export_stm(add_to_stm([mm EXCEPT !.summary_threshold = 1],
                                      user_input, "ok"))} :
    \E r \in {consolidate(s1, <<>>, delta_output, distill_output)} :
       /\ should_summarize(s1)
       /\ Len(last.history) < MaxDistill
       /\ SetMM(export_all(r.self))
       /\ last' = [op |-> "chat", cycle |-> r.ret,
                   history |-> Distilled(last.history, r, distill_output)]
       /\ Committed(r)

InitArchive ==
  /\ ltm_chunks = EmptyDict
  /\ chunk_index_map = EmptyDict
  /\ next_vector_id = 0
  /\ ltm_index = <<>>
  /\ ltm_metadata = <<>>
  /\ disk = [faiss_index |-> NoFile, metadata |-> NoFile,
             chunks |-> NoFile, chunk_map |-> NoFile]
  /\ now = 0
  /\ issued = 0
  /\ stm = <<>>
  /\ turn_count = 0
  /\ consolidation_count = 0
  /\ archive_metadata = <<>>
  /\ summary_threshold = config_summary_threshold
  /\ chunk_consolidation_prompt = ""
  /\ snapshots = [stm |-> NoFile, ltm |-> NoFile]
  /\ last = [op |-> "none", history |-> <<>>]
  /\ deleted_ids = {}
  /\ commits = 0
  /\ inflight = [q \in Requests |-> Idle]

NextArchive == ChatRewrite

SpecArchive == InitArchive /\ [][NextArchive]_vars

\* ---------------------------------------------------------- edit scripts
\* the blocks an edit script is made of, and the scripts
ScriptBlocks ==
  {AddBlock("facts", " B "), UpdateBlock(1, "\nA\n"), DeleteBlock(1),
   Text("note")}

Scripts == UNION {[1..n -> ScriptBlocks] : n \in 0..MaxOps}

\* apply_chunk_consolidation on an edit script, the summary being "A"
ApplyChunkConsolidation ==
  \E raw_output \in Scripts :
    LET r == apply_chunk_consolidation(mm, raw_output, "A")
    IN /\ WithinBounds(r.self)
       /\ SetMM(r.self)
       /\ last' = [op |-> "consolidation", raw_output |-> raw_output,
                   operations |-> parse_chunk_operations(raw_output),
                   ret |-> r.ret]
       /\ deleted_ids' = deleted_ids \cup
                           (DOMAIN ltm_chunks \ DOMAIN r.self.ltm_chunks)
       /\ UNCHANGED commits

NextScript == AddChunk \/ ApplyChunkConsolidation

SpecScript == Init /\ [][NextScript]_vars

\* ------------------------------------------------- embedding failure
\* add_chunk while the embedding service fails
AddChunkEncodeError ==
  \E input \in AddInputs :
    /\ issued < MaxIds
    /\ now < MaxTime
    /\ SetMM(add_chunk_encode_error(mm, input[1], input[2]))
    /\ last' = [op |-> "add_error", content |-> input[1],
                category |-> input[2]]
    /\ UNCHANGED <<deleted_ids, commits>>

\* update_chunk while the embedding service fails
UpdateChunkEncodeError ==
  \E chunk_id \in ChunkIds, input \in UpdateInputs :
    LET r == update_chunk_encode_error(mm, chunk_id, input[1], input[2])
    IN /\ now < MaxTime
       /\ SetMM(r.self)
       /\ last' = [op |-> "update_error", chunk_id |-> chunk_id,
                   content |-> input[1], category |-> input[2],
                   raised |-> r.raised]
       /\ UNCHANGED <<deleted_ids, commits>>

NextFail == \/ AddChunk \/ UpdateChunk \/ DeleteChunk
            \/ AddChunkEncodeError \/ UpdateChunkEncodeError

SpecFail == Init /\ [][NextFail]_vars

\* ----------------------------------------------------------- batch apply
\* the operations of the batches whose history is kept; an id they name
\* may be unknown when its operation is reached
AppliedOps ==
  {[type |-> "ADD", content |-> "A", category |-> "facts", chunk_id |-> NoChunk],
   [type |-> "UPDATE", content |-> "B", category |-> None, chunk_id |-> 1],
   [type |-> "DELETE", content |-> "", category |-> None, chunk_id |-> 1],
   [type |-> "DELETE", content |-> "", category |-> None, chunk_id |-> 2]}

AppliedBatches == UNION {[1..n -> AppliedOps] : n \in 0..MaxOps}

\* apply_chunk_operations, the batch kept in the history
ApplyBatch ==
  \E operations \in AppliedBatches :
    LET r == apply_chunk_operations(mm, operations)
    IN /\ WithinBounds(r.self)
       /\ SetMM(r.self)
       /\ last' = [op |-> "batch", operations |-> operations, ret |-> r.ret]
       /\ deleted_ids' = deleted_ids \cup
                           (DOMAIN ltm_chunks \ DOMAIN r.self.ltm_chunks)
       /\ UNCHANGED commits

NextApply == AddChunk \/ ApplyBatch

SpecApply == Init /\ [][NextApply]_vars

\* ======================================================================
\* Properties
\* ======================================================================
ChunkCount == Cardinality(DOMAIN ltm_chunks)
MapSize    == Cardinality(DOMAIN chunk_index_map)
SlotsOf (map, id) == {p \in DOMAIN map : map[p] = id}
Orphans    == (0..(Len(ltm_index) - 1)) \ DOMAIN chunk_index_map

\* C1: whatever adds, updates and deletes came before, a retrieve_chunks
\* call with top_k >= 1 returns no chunk id twice, and every chunk id it
\* returns is in the chunk table at the time of the call.
C1_RetrieveDistinctAndLive ==
  last.op = "retrieve" =>
    /\ \A i, j \in 1..Len(last.ret) :
         i # j => last.ret[i].chunk_id # last.ret[j].chunk_id
    /\ \A i \in 1..Len(last.ret) : last.ret[i].chunk_id \in DOMAIN ltm_chunks

\* a retrieval whose search reached the orphaned slot of a deleted chunk and
\* that still returned a chunk
C1_Witness ==
  /\ last.op = "retrieve"
  /\ deleted_ids # {}
  /\ \E i \in 1..Len(last.searched) : last.searched[i] \in Orphans
  /\ Len(last.ret) >= 1

\* C2: after any adds, updates, deletes and batch applies, every chunk of the
\* chunk table has exactly one slot-map entry and every slot-map entry names
\* a chunk of the chunk table, so the slot map is as large as the chunk table.
C2_OneSlotPerChunk ==
  /\ \A id \in DOMAIN ltm_chunks :
       Cardinality(SlotsOf(chunk_index_map, id)) = 1
  /\ \A p \in DOMAIN chunk_index_map : chunk_index_map[p] \in DOMAIN ltm_chunks
  /\ MapSize = ChunkCount

\* a batch that updated one chunk and deleted another, one chunk surviving
C2_Witness ==
  /\ last.op = "apply"
  /\ last.ret.updated >= 1
  /\ last.ret.deleted >= 1
  /\ ChunkCount >= 1

\* C3: under add, update, delete and batch apply the physical slot count never
\* decreases, and it is always at least the number of chunks.
C3_SlotsNeverShrink ==
  /\ [][Len(ltm_index') >= Len(ltm_index)]_vars
  /\ [](Len(ltm_index) >= ChunkCount)

\* a batch that deleted a chunk, leaving more than one orphaned slot behind
C3_Witness ==
  /\ last.op = "apply"
  /\ last.ret.deleted >= 1
  /\ Len(ltm_index) >= ChunkCount + 2

\* C4: update_chunk on a known id returns true, adds exactly one physical
\* slot, leaves the size of the slot map unchanged (every slot the id had is
\* orphaned, the one new slot is mapped to it) and stores the new content.
C4_UpdateKnown ==
  [][(last'.op = "update" /\ last'.chunk_id \in DOMAIN ltm_chunks) =>
       LET id == last'.chunk_id
       IN /\ last'.ret = TRUE
          /\ Len(ltm_index') = Len(ltm_index) + 1
          /\ Cardinality(DOMAIN chunk_index_map') = MapSize
          /\ SlotsOf(chunk_index_map, id) \cap DOMAIN chunk_index_map' = {}
          /\ SlotsOf(chunk_index_map', id) = {Len(ltm_index)}
          /\ ltm_chunks'[id].content = last'.content]_vars

\* a successful update that left the chunk's previous slot orphaned
C4_Witness ==
  /\ last.op = "update"
  /\ last.ret = TRUE
  /\ Orphans # {}
  /\ ltm_chunks[last.chunk_id].content = "B"

\* C5: update_chunk and delete_chunk on an id that is not in the chunk table
\* return false and leave the chunk table, the slot map and the physical
\* slot count as they were.
C5_UnknownIdNoOp ==
  [][(last'.op \in {"update", "delete"}
        /\ last'.chunk_id \notin DOMAIN ltm_chunks) =>
       /\ last'.ret = FALSE
       /\ ltm_chunks' = ltm_chunks
       /\ chunk_index_map' = chunk_index_map
       /\ Len(ltm_index') = Len(ltm_index)]_vars

\* an update refused for an id that was deleted before, other chunks present
C5_Witness ==
  /\ last.op = "update"
  /\ last.ret = FALSE
  /\ last.chunk_id \in deleted_ids
  /\ ChunkCount >= 1

\* C6: delete_chunk on a known id returns true, removes the id from the chunk
\* table and from the slot map and leaves the physical slot count unchanged;
\* from then on, whatever is added, updated or deleted, get_chunk finds
\* nothing under the id and no retrieve_chunks call returns it.
C6_DeleteIsPermanent ==
  /\ [][(last'.op = "delete" /\ last'.chunk_id \in DOMAIN ltm_chunks) =>
          /\ last'.ret = TRUE
          /\ last'.chunk_id \notin DOMAIN ltm_chunks'
          /\ SlotsOf(chunk_index_map', last'.chunk_id) = {}
          /\ Len(ltm_index') = Len(ltm_index)]_vars
  /\ [](\A id \in deleted_ids : get_chunk(mm, id) = NoneChunk)
  /\ [](last.op = "retrieve" =>
          \A i \in 1..Len(last.ret) : last.ret[i].chunk_id \notin deleted_ids)

\* a retrieval, made after a delete and a later add, whose nearest slot is
\* an orphan and that returns a chunk created after the delete
C6_Witness ==
  /\ last.op = "retrieve"
  /\ deleted_ids # {}
  /\ last.searched[1] \in Orphans
  /\ \E i \in 1..Len(last.ret), d \in deleted_ids : last.ret[i].chunk_id > d

\* C7: add_chunk returns an id under which get_chunk then finds the content
\* and the category that were given; the call adds one physical slot and one
\* slot-map entry and changes no other chunk.
C7_AddThenGet ==
  [][last'.op = "add" =>
       LET id == last'.ret
       IN /\ id \notin DOMAIN ltm_chunks
          /\ DOMAIN ltm_chunks' = DOMAIN ltm_chunks \cup {id}
          /\ ltm_chunks'[id].content = last'.content
          /\ ltm_chunks'[id].category = last'.category
          /\ Len(ltm_index') = Len(ltm_index) + 1
          /\ Cardinality(DOMAIN chunk_index_map') = MapSize + 1
          /\ \A o \in DOMAIN ltm_chunks : ltm_chunks'[o] = ltm_chunks[o]
          /\ \A p \in DOMAIN chunk_index_map :
               /\ p \in DOMAIN chunk_index_map'
               /\ chunk_index_map'[p] = chunk_index_map[p]]_vars

\* an add with a category other than the default, made beside another chunk
C7_Witness ==
  /\ last.op = "add"
  /\ last.category = "facts"
  /\ ChunkCount >= 2
  /\ get_chunk(mm, last.ret).category = "facts"

\* C8: every chunk returned by retrieve_chunks carries the content and the
\* category the chunk table holds for its id, and an update replaces the
\* content the table holds; so once update_chunk(id, B) has replaced A, no
\* retrieval returns A for id, though the vector of A still fills a slot.
C8_RetrieveCurrentContent ==
  /\ [](last.op = "retrieve" =>
          \A i \in 1..Len(last.ret) :
            /\ last.ret[i].content = ltm_chunks[last.ret[i].chunk_id].content
            /\ last.ret[i].category = ltm_chunks[last.ret[i].chunk_id].category)
  /\ [][(last'.op = "update" /\ last'.ret = TRUE) =>
          ltm_chunks'[last'.chunk_id].content = last'.content]_vars

\* chunk 1 created with A and updated to B: slot 0 still holds the vector of
\* A and is orphaned; the query A reaches slot 0 first and gets chunk 1 with B
C8_Witness ==
  /\ last.op = "retrieve"
  /\ last.query = "A"
  /\ Len(last.searched) >= 1
  /\ ltm_index[1] = Embed["A"]
  /\ last.searched[1] = 0
  /\ 0 \in Orphans
  /\ \E i \in 1..Len(last.ret) :
       /\ last.ret[i].chunk_id = 1
       /\ last.ret[i].content = "B"
       /\ last.ret[i].created_at = 0

\* the index-returned positions that the walk accepts: mapped slots whose
\* chunk no earlier position of the sequence maps to
AcceptedPositions (searched) ==
  {i \in 1..Len(searched) :
     /\ searched[i] \in DOMAIN chunk_index_map
     /\ \A j \in 1..(i - 1) :
          searched[j] \in DOMAIN chunk_index_map =>
            chunk_index_map[searched[j]] # chunk_index_map[searched[i]]}

\* the m-th smallest element of a set of positions
NthOf (S, m) == CHOOSE i \in S : Cardinality({j \in S : j < i}) = m - 1

QueryDist (p) == L2(ltm_index[p + 1], Embed[last.query])

\* C9: retrieve_chunks asks the index for min(2 * top_k, slot count) nearest
\* slots and returns at most top_k chunks: the first top_k accepted entries
\* of the returned slot sequence, skipping unmapped slots and chunks already
\* emitted, in the returned order; on an empty index it returns nothing.
C9_RetrieveWalk ==
  last.op = "retrieve" =>
    LET s   == last.searched
        res == last.ret
        acc == AcceptedPositions(s)
    IN /\ Len(ltm_index) = 0 => (s = <<>> /\ res = <<>>)
       /\ Len(s) = Min(2 * last.top_k, Len(ltm_index))
       /\ \A i, j \in 1..Len(s) :
            i < j => (s[i] # s[j] /\ QueryDist(s[i]) <= QueryDist(s[j]))
       /\ \A p \in 0..(Len(ltm_index) - 1) :
            (\A i \in 1..Len(s) : s[i] # p) =>
              \A i \in 1..Len(s) : QueryDist(s[i]) <= QueryDist(p)
       /\ Len(res) = Min(last.top_k, Cardinality(acc))
       /\ \A m \in 1..Len(res) :
            res[m].chunk_id = chunk_index_map[s[NthOf(acc, m)]]

\* top_k = 1 on three slots: two slots asked of the index, the nearest one an
\* orphan that is skipped, the next one accepted
C9_Witness ==
  /\ last.op = "retrieve"
  /\ last.top_k = 1
  /\ Len(ltm_index) = 3
  /\ Len(last.searched) = 2
  /\ last.searched[1] \in Orphans
  /\ Len(last.ret) = 1

\* C10: persisting a store reached by adds, updates and deletes and then
\* reloading it gives back the same chunk table, the same slot map (same
\* positions, same chunk ids) and the same physical slot count, orphaned
\* slots included.
C10_PersistReloadRoundTrip ==
  [][(last.op = "save" /\ last'.op = "reload") =>
       /\ ltm_chunks' = ltm_chunks
       /\ chunk_index_map' = chunk_index_map
       /\ Len(ltm_index') = Len(ltm_index)]_vars

\* a reload straight after a save of a store with two chunks and an orphan
C10_Witness ==
  /\ last.op = "reload"
  /\ last.after = "save"
  /\ ChunkCount = 2
  /\ Orphans # {}
  /\ MapSize = 2

\* ------------------------------------------------ consolidation cycles
\* the request just handled ran a consolidation cycle
CycleRan == last.op \in {"chat", "sleep"} /\ last.ran
\* the aggregate text of the cycle, trimmed, is longer than 10 characters
LongEnough (kb) == Len(strip(kb)) > 10

C12_AbortRollsBack ==
  [][(CycleRan' /\ ~LongEnough(last'.cycle.kb)) =>
       /\ ltm_chunks' = ltm_chunks
       /\ chunk_index_map' = chunk_index_map
       /\ Len(ltm_index') = Len(ltm_index)
       /\ disk' = disk]_vars

\* C13: a consolidation cycle whose aggregate text, trimmed, is longer than
\* 10 characters ends with an empty turn buffer and turn_count 0, and the
\* next chat request finds its turn alone in the buffer, counted as turn 1.
C13_CommitClearsTurns ==
  /\ [][(CycleRan' /\ LongEnough(last'.cycle.kb)) =>
          /\ stm' = <<>>
          /\ turn_count' = 0]_vars
  /\ [][(CycleRan /\ LongEnough(last.cycle.kb) /\ last'.op = "chat") =>
          /\ Len(last'.buffer) = 1
          /\ last'.count = 1]_vars

\* a chat request whose turn is the first after a commit that cleared two
\* buffered turns: the state after its own cycle, which committed too
C13_Witness ==
  /\ last.op = "chat"
  /\ last.ran
  /\ Len(last.buffer) = 1
  /\ last.count = 1
  /\ LongEnough(last.cycle.kb)
  /\ stm = <<>>
  /\ turn_count = 0
  /\ commits >= 2

\* C14 (as claimed): a cycle that commits has raised consolidation_count by
\* exactly 1 when the archive threshold is checked, in chunk mode and in
\* rewrite mode; a cycle that aborts has left it unchanged.
C14_CommitCounts ==
  [][CycleRan' =>
       last'.cycle.count_before_check =
          IF LongEnough(last'.cycle.kb) THEN consolidation_count + 1
          ELSE consolidation_count]_vars

\* C15 (as claimed): the deep archive runs in the cycle of the
\* archive_threshold-th commit since the last deep archive, where it appends
\* one entry and resets consolidation_count to 0, and in no other cycle.
C15_ArchiveAtThreshold ==
  [][CycleRan' =>
       /\ last'.cycle.archived <=>
            (LongEnough(last'.cycle.kb) /\ commits + 1 = archive_threshold)
       /\ last'.cycle.archived =>
            /\ Len(archive_metadata') = Len(archive_metadata) + 1
            /\ consolidation_count' = 0
       /\ ~last'.cycle.archived => archive_metadata' = archive_metadata]_vars

\* C18: in chunk mode, a cycle whose edit script yields no operation adds
\* exactly one chunk, holding the whole summary under category "general",
\* and changes no other chunk; a cycle whose script yields an operation
\* adds no chunk for the summary, and no more chunks than operations.
C18_FallbackAdd ==
  [][(CycleRan' /\ last'.cycle.mode = "chunk") =>
       LET new == DOMAIN ltm_chunks' \ DOMAIN ltm_chunks
       IN IF last'.cycle.parsed = 0
          THEN /\ Cardinality(new) = 1
               /\ \A id \in new :
                    /\ ltm_chunks'[id].content = last'.cycle.summary
                    /\ ltm_chunks'[id].category = "general"
               /\ \A id \in DOMAIN ltm_chunks :
                    /\ id \in DOMAIN ltm_chunks'
                    /\ ltm_chunks'[id] = ltm_chunks[id]
               /\ Len(ltm_index') = Len(ltm_index) + 1
          ELSE /\ Cardinality(new) <= last'.cycle.parsed
               /\ \A id \in new :
                    ltm_chunks'[id].content # last'.cycle.summary]_vars

\* a cycle whose script yielded nothing: the summary B was added as a second
\* chunk beside the chunk an earlier script had added
C18_Witness ==
  /\ CycleRan
  /\ last.cycle.mode = "chunk"
  /\ last.cycle.parsed = 0
  /\ last.cycle.summary = "B"
  /\ ChunkCount = 2
  /\ \E id \in DOMAIN ltm_chunks :
       ltm_chunks[id].content = "B" /\ ltm_chunks[id].category = "general"
  /\ \E id \in DOMAIN ltm_chunks : ltm_chunks[id].content = "A"

\* ----------------------------------------------------- the archive ring
\* C16: the archive never holds more than 10 entries; it holds the most
\* recent distillations, at most 10, in the order they were made, so after
\* the 11th distillation it holds distillations 2 to 11.
C16_ArchiveRing ==
  LET n == Len(last.history)
      k == Len(archive_metadata)
  IN /\ k <= 10
     /\ k = Min(n, 10)
     /\ \A i \in 1..k : archive_metadata[i] = last.history[n - k + i]
     /\ n = 11 => archive_metadata = SubSeq(last.history, 2, 11)

\* eleven distillations were made, the first of them is gone
C16_Witness ==
  /\ Len(last.history) = 11
  /\ Len(archive_metadata) = 10
  /\ archive_metadata[1] = last.history[2]
  /\ archive_metadata[10] = last.history[11]
  /\ last.history[1] \notin {archive_metadata[i] : i \in 1..10}

\* ---------------------------------------------------------- edit scripts
\* the operations of a script, block by block in the order of the text
RECURSIVE InDocumentOrder (_)
InDocumentOrder (raw) ==
  IF raw = <<>> THEN <<>>
  ELSE (IF Head(raw).tag = "TEXT" THEN <<>>
        ELSE find_ops(<<Head(raw)>>, Head(raw).tag))
       \o InDocumentOrder(Tail(raw))

\* C17 (as claimed): the parsed operations list the ADD, UPDATE and DELETE
\* blocks of the script in the order of the text, whatever their types, and
\* the chunk table after the script is the one that applying them in that
\* order gives.
C17_DocumentOrder ==
  [][last'.op = "consolidation" =>
       LET in_order == InDocumentOrder(after_think(last'.raw_output))
       IN /\ last'.operations = in_order
          /\ in_order # <<>> =>
               ltm_chunks' = apply_chunk_operations(mm, in_order).self.ltm_chunks
     ]_vars

\* ----------------------------------------------------------- batch apply
\* a walk over a batch that follows which chunk ids are known: the
\* operations that take effect (an ADD with content, an UPDATE or DELETE of
\* a known id) and how many there are of each type
RECURSIVE Track (_, _, _, _, _)
Track (operations, known, fresh, counts, effective) ==
  IF operations = <<>> THEN [counts |-> counts, effective |-> effective]
  ELSE
    LET op   == Head(operations)
        rest == Tail(operations)
    IN CASE op.type = "ADD" /\ op.content # "" ->
              Track(rest, known \cup {fresh + 1}, fresh + 1,
                    [counts EXCEPT !.added = @ + 1], Append(effective, op))
         [] op.type = "UPDATE" /\ op.chunk_id \in known ->
              Track(rest, known, fresh,
                    [counts EXCEPT !.updated = @ + 1], Append(effective, op))
         [] op.type = "DELETE" /\ op.chunk_id \in known ->
              Track(rest, known \ {op.chunk_id}, fresh,
                    [counts EXCEPT !.deleted = @ + 1], Append(effective, op))
         [] OTHER -> Track(rest, known, fresh, counts, effective)

\* C19: a batch returns normally with the counts of the operations that
\* took effect, an UPDATE or DELETE of an id that is not in the chunk table
\* when its turn comes not being counted, and it leaves the store as the
\* batch without those operations leaves it: they change nothing and the
\* other operations are applied all the same.
C19_UnknownIdsSkipped ==
  [][last'.op = "batch" =>
       LET t == Track(last'.operations, DOMAIN ltm_chunks, issued, NoCounts,
                      <<>>)
           e == apply_chunk_operations(mm, t.effective).self
       IN /\ last'.ret = t.counts
          /\ ltm_chunks' = e.ltm_chunks
          /\ chunk_index_map' = e.chunk_index_map
          /\ ltm_index' = e.ltm_index
          /\ next_vector_id' = e.next_vector_id
          /\ disk' = e.disk
          /\ t.effective = <<>> =>
               /\ ltm_chunks' = ltm_chunks
               /\ chunk_index_map' = chunk_index_map
               /\ ltm_index' = ltm_index]_vars

\* a batch of an UPDATE of an id deleted earlier and a DELETE of the one
\* chunk of the store: one deletion counted, no update
C19_Witness ==
  /\ last.op = "batch"
  /\ Len(last.operations) = 2
  /\ last.operations[1].type = "UPDATE"
  /\ last.operations[2].type = "DELETE"
  /\ last.operations[1].chunk_id # last.operations[2].chunk_id
  /\ last.operations[1].chunk_id \in deleted_ids
  /\ last.ret = [added |-> 0, updated |-> 0, deleted |-> 1]
  /\ ltm_chunks = <<>>

\* ------------------------------------------------- embedding failure
\* C20 (as claimed): an add or update during which the embedding service
\* raises leaves the chunk table, the slot map and the number of slots as
\* they were before the call, so that no chunk is left without a mapped slot.
C20_EncodeErrorChangesNothing ==
  [][(\/ last'.op = "add_error"
      \/ last'.op = "update_error" /\ last'.raised) =>
       /\ ltm_chunks' = ltm_chunks
       /\ chunk_index_map' = chunk_index_map
       /\ Len(ltm_index') = Len(ltm_index)
       /\ \A id \in DOMAIN ltm_chunks' :
            SlotsOf(chunk_index_map', id) # {}]_vars

\* ------------------------------------------------- outcomes of a request
\* the markers of a sequence of signals
Markers (signals) == {signals[i] : i \in 1..Len(signals)}

\* what a caller reads from the signals of a sleep request
SleepOutcome (signals) ==
  IF "__METADATA__nothing_to_consolidate" \in Markers(signals) THEN "none"
  ELSE IF "[ERROR]" \in Markers(signals) THEN "abort"
  ELSE "commit"

C29_CommitWroteChunks ==
  [][(CycleRan' /\ last'.cycle.mode = "chunk"
      /\ LongEnough(last'.cycle.kb)) =>
       ltm_chunks' # ltm_chunks]_vars

\* C30 (as claimed): after a chunk-mode consolidation the aggregate view is
\* the category-tagged concatenation of the chunks of the chunk table, with
\* their number as chunk_count (nothing of it when the table is empty), and
\* the text tested for the commit is that concatenation.
C30_ViewMatchesChunks ==
  [][(CycleRan' /\ last'.cycle.mode = "chunk") =>
       LET ids       == DOMAIN ltm_chunks'
           rendering == JoinFrom(ltm_chunks', ids, "\n\n")
       IN /\ last'.cycle.kb = rendering
          /\ IF ids = {}
             THEN \A i \in 1..Len(ltm_metadata') :
                    ltm_metadata'[i].content = ""
             ELSE ltm_metadata' = <<[content |-> rendering,
                                     chunk_count |-> Cardinality(ids)]>>]_vars

\* C24: recovery from the snapshot files, run while the index holds at least
\* one vector, changes neither the chunk table, the slot map, the index, the
\* aggregate view, the turn buffer nor the count of turns
C24_SyncKeepsLoadedStore ==
  [][(last'.op = "sync" /\ Len(ltm_index) > 0) =>
       UNCHANGED <<ltm_chunks, chunk_index_map, next_vector_id, ltm_index,
                   ltm_metadata, stm, turn_count>>]_vars

\* recovery ran over a store with a chunk and a buffered turn while both
\* snapshot files existed
C24_Witness ==
  /\ last.op = "sync"
  /\ last.slots > 0
  /\ DOMAIN ltm_chunks # {}
  /\ stm # <<>>
  /\ snapshots.ltm.exists
  /\ snapshots.stm.exists

\* ------------------------------------------- generative service failure
\* C21: a cycle in which the generative service failed, in the summarization
\* call or in the edit-script call, yields the error marker and changes
\* neither the chunk store nor the aggregate view, keeps the turn buffer and
\* turn_count, and no chunk holds the text of the failure
C21_FailureMutatesNothing ==
  [][last'.op = "chat_error" =>
       /\ "[ERROR]" \in Markers(last'.signals)
       /\ UNCHANGED <<ltm_chunks, chunk_index_map, ltm_index, ltm_metadata>>
       /\ stm' = last'.buffer
       /\ turn_count' = last'.count
       /\ \A id \in DOMAIN ltm_chunks' :
            ltm_chunks'[id].content # block_text(generate_stream_error[1])]_vars

\* ------------------------------------------------- restore and clear
\* C22: after a successful restore_from_archive(i) the chunk table holds
\* exactly one chunk, whose text is that of archive entry i, the index holds
\* exactly one vector, and the slot map maps that slot to that chunk
C22_RestoreLeavesOneChunk ==
  [][(last'.op = "restore" /\ last'.ret) =>
       /\ Cardinality(DOMAIN ltm_chunks') = 1
       /\ \A id \in DOMAIN ltm_chunks' : ltm_chunks'[id].content = last'.entry
       /\ Len(ltm_index') = 1
       /\ DOMAIN chunk_index_map' = {0}
       /\ \A slot \in DOMAIN chunk_index_map' :
            chunk_index_map'[slot] \in DOMAIN ltm_chunks']_vars

\* C23: a chat request, with or without a consolidation cycle in chunk or
\* in rewrite mode, neither lowers the number of vectors in the index nor
\* the next slot number, and removes chunks only by the operations of an
\* edit script
C23_CyclesNeverReset ==
  [][last'.op = "chat" =>
       /\ Len(ltm_index') >= Len(ltm_index)
       /\ next_vector_id' >= next_vector_id
       /\ \/ DOMAIN ltm_chunks \subseteq DOMAIN ltm_chunks'
          \/ last'.cycle.mode = "chunk"]_vars

\* ---------------------------------------------------------- conflict scan
\* the two chunk ids of an entry of a scan
PairOf (conflict) == {conflict.chunk1.chunk_id, conflict.chunk2.chunk_id}

\* C26: in the list one scan returns, no two entries name the same unordered
\* pair of chunk ids, and every entry names two different chunks
C26_PairsOnce ==
  last.op = "scan" =>
    /\ \A i \in 1..Len(last.ret) : Cardinality(PairOf(last.ret[i])) = 2
    /\ \A i, j \in 1..Len(last.ret) :
         PairOf(last.ret[i]) = PairOf(last.ret[j]) => i = j

\* a scan over two live chunks, one slot of the index being a tombstone,
\* returned their pair
C26_Witness ==
  /\ last.op = "scan"
  /\ Len(last.ret) = 1
  /\ Cardinality(DOMAIN ltm_chunks) = 2
  /\ Len(ltm_index) > Cardinality(DOMAIN chunk_index_map)

\* --------------------------------------------- requests in flight together
\* the requests whose consolidation cycle has started and neither committed
\* nor aborted
InCycle (requests) == {q \in Requests : requests[q].pc = "cycle"}

\* C25: at most one consolidation cycle is between its start and its commit
\* or abort, and while a request is there no step of another request changes
\* the turn buffer, turn_count or the chunk store
C25_CyclesSerialized ==
  [][/\ Cardinality(InCycle(inflight')) <= 1
     /\ \A q \in Requests :
          (inflight[q].pc = "cycle" /\ inflight'[q].pc = "cycle") =>
            UNCHANGED <<stm, turn_count, ltm_chunks, chunk_index_map,
                        next_vector_id, ltm_index, ltm_metadata>>]_vars

\* the cosine of the embeddings of two texts is above t hundredths
CosineAbove (text1, text2, t) ==
  LET u == encode(text1)
      v == encode(text2)
      uv == u[1] * v[1] + u[2] * v[2]
  IN /\ uv > 0
     /\ 10000 * uv * uv
          > t * t * (u[1] * u[1] + u[2] * u[2]) * (v[1] * v[1] + v[2] * v[2])

\* C31: every entry of a scan names two different chunks of the chunk table
\* whose contents have a cosine similarity strictly above the threshold in
\* force, and a scan with the similarity check disabled returns nothing
C31_PairsAreConflicts ==
  last.op = "scan" =>
    /\ \A i \in 1..Len(last.ret) :
         LET id1 == last.ret[i].chunk1.chunk_id
             id2 == last.ret[i].chunk2.chunk_id
         IN /\ id1 # id2
            /\ {id1, id2} \subseteq DOMAIN ltm_chunks
            /\ CosineAbove(ltm_chunks[id1].content, ltm_chunks[id2].content,
                           last.threshold)
    /\ (~last.enabled => last.ret = <<>>)

\* a scan at threshold 0.99 over two chunks reported their pair
C31_Witness ==
  /\ last.op = "scan"
  /\ Cardinality(DOMAIN ltm_chunks) = 2
  /\ last.enabled
  /\ last.threshold = 99
  /\ Len(last.ret) = 1

\* ------------------------------------------------------------ the parser
\* the position of the last "</think>" of a text, 0 when it has none
ReasoningEnd (raw) ==
  IF \E i \in 1..Len(raw) : raw[i] = Think
  THEN CHOOSE i \in 1..Len(raw) :
         raw[i] = Think /\ \A j \in (i + 1)..Len(raw) : raw[j] # Think
  ELSE 0

\* block i of the text is an ADD, UPDATE or DELETE block after the
\* reasoning, with content if it is an ADD or UPDATE block
Operative (raw, i) ==
  /\ i > ReasoningEnd(raw)
  /\ raw[i].tag \in {"ADD", "UPDATE", "DELETE"}
  /\ raw[i].tag \in {"ADD", "UPDATE"} => strip(raw[i].content) # ""

\* C32: the parser returns one operation for each ADD, UPDATE or DELETE
\* block that follows the reasoning and, for ADD and UPDATE, has content,
\* and nothing else: blocks inside the reasoning, plain text and blocks with
\* empty content give no operation; it returns a list for every text
C32_OnlyOperativeBlocks ==
  last.op = "parse" =>
    LET raw == last.raw_output
        ops == last.ret
    IN /\ Len(ops) = Cardinality({i \in 1..Len(raw) : Operative(raw, i)})
       /\ \A k \in 1..Len(ops) :
            \E i \in 1..Len(raw) :
              /\ Operative(raw, i)
              /\ ops[k].type = raw[i].tag
              /\ ops[k].chunk_id = raw[i].chunk_id
              /\ ops[k].content = strip(raw[i].content)

\* a text with an ADD block inside the reasoning and a DELETE block after
\* it was parsed into one operation
C32_Witness ==
  /\ last.op = "parse"
  /\ Len(last.raw_output) = 3
  /\ last.raw_output[1].tag = "ADD"
  /\ last.raw_output[2] = Think
  /\ last.raw_output[3].tag = "DELETE"
  /\ Len(last.ret) = 1

\* ------------------------------------------------- failure of the write
\* C33: a consolidation cycle in which the write of the store raises does
\* not commit: the turn buffer and turn_count stay as the cycle found them,
\* consolidation_count is not incremented, and the response carries no
\* marker of success: its stream is ended by the exception or it carries
\* the error marker
C33_FailedWriteNoCommit ==
  [][last'.op \in {"chat_save_error", "sleep_save_error"} =>
       /\ stm' = last'.buffer
       /\ turn_count' = last'.count
       /\ consolidation_count' = consolidation_count
       /\ Markers(last'.signals) \cap {"__METADATA__", "__METADATA__slept"} = {}
       /\ last'.raised \/ "__METADATA__error" \in Markers(last'.signals)]_vars

\* the write failed in a sleep request over a buffered turn after two of
\* the four files had been written, the files holding a store of an
\* earlier commit
C33_Witness ==
  /\ last.op = "sleep_save_error"
  /\ stm # <<>>
  /\ disk.chunk_map.exists
  /\ disk.metadata.exists
  /\ disk.metadata.data = ltm_metadata
  /\ disk.chunks.data # ltm_chunks

\* ------------------------------------------------- the size of the buffer
\* C34: after a chat request the turn buffer holds no more turns than the
\* stm_size in effect, the stm_max of the report; a turn appended to a full
\* buffer takes the place of the oldest one, and turn_count grows by 1
C34_BufferWithinStmSize ==
  [][last'.op = "chat_stm_size" =>
       /\ Len(stm') <= last'.memory_stats.stm_max
       /\ last'.memory_stats.stm_count <= last'.memory_stats.stm_max
       /\ ~last'.ran =>
            /\ turn_count' = turn_count + 1
            /\ stm' = Append(IF Len(stm) >= stm_size THEN Tail(stm) ELSE stm,
                             last'.turn)]_vars

\* ------------------------------------------------- slots and positions
\* C35: the next-slot counter equals the number of vectors in the index,
\* and every slot of the slot map is a position of the index that holds
\* the vector of the current content of the chunk mapped to it
C35_MapMatchesIndex ==
  /\ next_vector_id = Len(ltm_index)
  /\ \A slot \in DOMAIN chunk_index_map :
       /\ slot < Len(ltm_index)
       /\ chunk_index_map[slot] \in DOMAIN ltm_chunks
       /\ ltm_index[slot + 1]
            = encode(ltm_chunks[chunk_index_map[slot]].content)

\* s is what is left of the sequence t after turns were taken off its front
IsSuffix (s, t) ==
  /\ Len(s) <= Len(t)
  /\ s = SubSeq(t, Len(t) - Len(s) + 1, Len(t))

\* C36: the turns a committing cycle removes from the buffer are turns of
\* its summary prompt, and the turn_count it resets counts no turn appended
\* since the prompt was built
C36_CommitRemovesSummarizedTurns ==
  [][(last'.op = "chat_resume" /\ last'.outcome = "commit") =>
       /\ IsSuffix(stm, last'.sp)
       /\ turn_count <= last'.count]_vars

\* ------------------------------------------------- breadth of retrieval
\* C37: retrieve_chunks(query, top_k) returns min(top_k, number of chunks
\* of the chunk table) chunks, whatever slots updates and deletes have
\* orphaned
C37_RetrieveFillsTopK ==
  last.op = "retrieve" =>
    Len(last.ret) = Min(last.top_k, Cardinality(DOMAIN ltm_chunks))

\* --------------------------------------------- the consolidation counter
\* C38: consolidation_count changes only by +1 at a commit of a cycle or
\* by a reset to 0 at a deep archive; a restore and a clear leave it
\* unchanged, and a successful restore also leaves the archive, the turn
\* buffer and turn_count unchanged
C38_CountChangesAtCommits ==
  [][/\ last'.op \in {"restore", "clear"} =>
          consolidation_count' = consolidation_count
     /\ (last'.op = "restore" /\ last'.ret) =>
          /\ archive_metadata' = archive_metadata
          /\ stm' = stm
          /\ turn_count' = turn_count
     /\ (last'.op = "chat" /\ consolidation_count' # consolidation_count) =>
          \/ consolidation_count' = consolidation_count + 1
          \/ consolidation_count' = 0]_vars

\* ---------------------------------------------------- frame of an update
\* C39: a successful update_chunk stores the new content and a new
\* updated_at in the chunk of the given id, keeps its created_at, keeps its
\* category when none is given and stores the given category otherwise, and
\* leaves the table entry and the slots of every other chunk as they were
C39_UpdateFrame ==
  [][(last'.op = "update" /\ last'.ret) =>
       \E id \in {last'.chunk_id} :
         /\ DOMAIN ltm_chunks' = DOMAIN ltm_chunks
         /\ ltm_chunks'[id].content = last'.content
         /\ ltm_chunks'[id].updated_at = now
         /\ ltm_chunks'[id].created_at = ltm_chunks[id].created_at
         /\ ltm_chunks'[id].category =
              IF last'.category = None THEN ltm_chunks[id].category
              ELSE last'.category
         /\ \A other \in DOMAIN ltm_chunks \ {id} :
              /\ ltm_chunks'[other] = ltm_chunks[other]
              /\ SlotsOf(chunk_index_map', other) =
                   SlotsOf(chunk_index_map, other)]_vars

\* an update without a category of a chunk filed under "facts", beside a
\* second chunk
C39_Witness ==
  /\ last.op = "update"
  /\ last.ret = TRUE
  /\ last.category = None
  /\ Cardinality(DOMAIN ltm_chunks) = 2
  /\ ltm_chunks[last.chunk_id].category = "facts"
  /\ ltm_chunks[last.chunk_id].updated_at > ltm_chunks[last.chunk_id].created_at

\* ------------------------------------------------ position of a restore
\* the archive as GET /memory/long-term lists it: newest entry first
Newest (archive) == [d \in 1..Len(archive) |-> archive[Len(archive) + 1 - d]]

\* C40: a restore request naming a position outside 0..len(archive)-1 is
\* answered "not found" and changes nothing of the store, the aggregate
\* view, the archive and the counters; a request naming position d inside
\* it succeeds and installs the text of the d-th newest entry of the archive
C40_RestorePosition ==
  [][last'.op = "restore_at" =>
       IF last'.index \in 0..(Len(archive_metadata) - 1)
       THEN /\ last'.ret = TRUE
            /\ Len(ltm_metadata') = 1
            /\ ltm_metadata'[1].content =
                 Newest(archive_metadata)[last'.index + 1].content
            /\ archive_metadata' = archive_metadata
       ELSE /\ last'.ret = FALSE
            /\ UNCHANGED <<ltm_chunks, chunk_index_map, next_vector_id,
                           ltm_index, ltm_metadata, disk, archive_metadata,
                           consolidation_count, turn_count, stm>>]_vars

\* the older of two archive entries of different texts restored by
\* position 1
C40_Witness ==
  /\ last.op = "restore_at"
  /\ last.ret = TRUE
  /\ last.index = 1
  /\ Len(archive_metadata) = 2
  /\ archive_metadata[1].content # archive_metadata[2].content
  /\ ltm_metadata[1].content = archive_metadata[1].content

\* a request naming a position past a non-empty archive, rejected
C40_WitnessRejected ==
  /\ last.op = "restore_at"
  /\ last.ret = FALSE
  /\ last.index \in {-1, 2}
  /\ archive_metadata # <<>>

====
